---- MODULE Spec2Model ----
(***************************************************************************)
(* ser-sled: a typed access layer over sled, an ordered byte-keyed store.  *)
(* Keys and values are encoded with bincode (standard configuration        *)
(* switched to big-endian: variable-length integers, length-prefixed       *)
(* sequences) and stored as byte strings ordered lexicographically.        *)
(***************************************************************************)
EXTENDS Integers, Sequences, FiniteSets, TLC

VARIABLES
    tree,      \* contents of the sled tree: function encoded key -> encoded value
    res,       \* the last call made on the tree handle and what it returned
    cfgval,    \* bytes under CONFIGUATION_TREE_KEY in the db (None or Some(bytes))
    handles,   \* SerSledDb handles returned so far (their ser_mode), in order
    pc,        \* per caller: position inside get_or_init
    seen,      \* per caller: what get returned inside get_or_init
    ret,       \* per caller: what get_or_init returned
    writes,    \* callers in the order their insert reached the store
    db,        \* the named trees of the sled db: function name -> contents
    opened     \* SerSledTree handles returned by open_tree, in order

vars == <<tree, res, cfgval, handles, pc, seen, ret, writes, db, opened>>

----------------------------------------------------------------------------
(* Option and Result *)

None == <<>>
Some(x) == <<x>>
Ok(x) == [ok |-> TRUE, val |-> x]
Err(e) == [ok |-> FALSE, err |-> e]

----------------------------------------------------------------------------
(* Bounds of the model *)

MaxEntries == 2      \* entries a tree holds at most
MaxHandles == 3      \* opens of one store that are followed
MaxOpened == 3       \* tree handles of one db that are followed
NumCallers == 2      \* concurrent callers of get_or_init

----------------------------------------------------------------------------
(* The codec: bincode, BINCODE_CONFIG = standard().with_big_endian()       *)
(* A typed value is [ty, v]: ty the Rust type, v its payload as a sequence *)
(*   u8    : <<b>>            one raw byte                                 *)
(*   u64   : <<n>>            variable-length integer, big-endian          *)
(*   i64   : <<n>>            signed: zigzag, then as an unsigned integer  *)
(*   vec   : <<b1, ..., bn>>  Vec<u8>: length as u64, then the bytes       *)
(*   arr1  : <<b>>            [u8; 1]: a tuple, no length prefix           *)
(*   arr2  : <<b1, b2>>       [u8; 2]                                      *)
(*   unit  : <<>>             (): no bytes                                 *)

T(ty, v) == [ty |-> ty, v |-> v]

\* n as w bytes, least significant first: bincode's standard() byte order
LittleEndian(n, w) ==
    [i \in 1..w |-> (n \div (256 ^ (i - 1))) % 256]

RECURSIVE BigEndian(_, _)
\* n as w bytes, most significant first
BigEndian(n, w) ==
    IF w = 0 THEN <<>> ELSE Append(BigEndian(n \div 256, w - 1), n % 256)

\* bytes read least significant first: the byte order of bincode's standard()
FromLittleEndian(bs) ==
    LET RECURSIVE le(_)
        le(xs) == IF xs = <<>> THEN 0 ELSE Head(xs) + 256 * le(Tail(xs))
    IN  le(bs)

RECURSIVE FromBigEndian(_)
FromBigEndian(bs) ==
    IF bs = <<>> THEN 0
    ELSE 256 * FromBigEndian(SubSeq(bs, 1, Len(bs) - 1)) + bs[Len(bs)]

\* bincode varint: one byte up to 250, else a marker byte and a fixed width
VarintEncode(n) ==
    IF n <= 250 THEN <<n>>
    ELSE IF n < 65536 THEN <<251>> \o BigEndian(n, 2)
    ELSE IF n \div 65536 < 65536 THEN <<252>> \o BigEndian(n, 4)
    ELSE <<253>> \o BigEndian(n, 8)

\* decoding a u64: [ok, n, used]; markers 254 (u128) and 255 are rejected,
\* a multi-byte form is accepted whatever value it carries
VarintDecode(bs) ==
    IF bs = <<>> THEN [ok |-> FALSE, n |-> 0, used |-> 0]
    ELSE LET d == bs[1]
             w == IF d = 251 THEN 2 ELSE IF d = 252 THEN 4 ELSE 8
         IN  IF d <= 250 THEN [ok |-> TRUE, n |-> d, used |-> 1]
             ELSE IF d >= 254 \/ Len(bs) < 1 + w
                  THEN [ok |-> FALSE, n |-> 0, used |-> 0]
                  ELSE [ok |-> TRUE, n |-> FromBigEndian(SubSeq(bs, 2, 1 + w)),
                        used |-> 1 + w]

\* bincode's signed integers: 0, -1, 1, -2, 2, ... become 0, 1, 2, 3, 4, ...
ZigZag(n) == IF n >= 0 THEN 2 * n ELSE -2 * n - 1
UnZigZag(u) == IF u % 2 = 0 THEN u \div 2 ELSE -((u + 1) \div 2)

\* bincode::serde::encode_to_vec(value, BINCODE_CONFIG)
Encode(x) ==
    CASE x.ty = "u8"   -> x.v
      [] x.ty = "u64"  -> VarintEncode(x.v[1])
      [] x.ty = "i64"  -> VarintEncode(ZigZag(x.v[1]))
      [] x.ty = "vec"  -> VarintEncode(Len(x.v)) \o x.v
      [] x.ty \in {"arr1", "arr2", "unit"} -> x.v

\* bincode::serde::decode_borrowed_from_slice::<ty, _>(bytes, BINCODE_CONFIG):
\* Ok(value) or Err("decode"); bytes after the value are not looked at
Decode(ty, bs) ==
    CASE ty \in {"u8", "arr1"} ->
            IF Len(bs) >= 1 THEN Ok(T(ty, <<bs[1]>>)) ELSE Err("decode")
      [] ty = "arr2" ->
            IF Len(bs) >= 2 THEN Ok(T(ty, SubSeq(bs, 1, 2))) ELSE Err("decode")
      [] ty = "unit" -> Ok(T(ty, <<>>))
      [] ty = "u64" ->
            LET d == VarintDecode(bs)
            IN  IF d.ok THEN Ok(T(ty, <<d.n>>)) ELSE Err("decode")
      [] ty = "i64" ->
            LET d == VarintDecode(bs)
            IN  IF d.ok THEN Ok(T(ty, <<UnZigZag(d.n)>>)) ELSE Err("decode")
      [] ty = "vec" ->
            LET d == VarintDecode(bs)
            IN  IF d.ok /\ Len(bs) - d.used >= d.n
                THEN Ok(T(ty, SubSeq(bs, d.used + 1, d.used + d.n)))
                ELSE Err("decode")

----------------------------------------------------------------------------
(* sled: byte strings in lexicographic order *)

\* a < b as byte strings
BytesLess(a, b) ==
    \/ Len(a) < Len(b) /\ SubSeq(b, 1, Len(a)) = a
    \/ \E i \in 1..Len(a) :
          /\ i <= Len(b)
          /\ a[i] < b[i]
          /\ SubSeq(a, 1, i - 1) = SubSeq(b, 1, i - 1)

BytesLeq(a, b) == a = b \/ BytesLess(a, b)

\* the keys of S in ascending byte order
RECURSIVE SortedKeys(_)
SortedKeys(S) ==
    IF S = {} THEN <<>>
    ELSE LET m == CHOOSE x \in S : \A y \in S : BytesLeq(x, y)
         IN  <<m>> \o SortedKeys(S \ {m})

EmptyTree == [k \in {} |-> <<>>]
TreeWith(t, kb, vb) == [x \in DOMAIN t \cup {kb} |-> IF x = kb THEN vb ELSE t[x]]
TreeWithout(t, kb) == [x \in DOMAIN t \ {kb} |-> t[x]]

\* sled::Tree::get
sled_get(t, kb) == IF kb \in DOMAIN t THEN Some(t[kb]) ELSE None

\* sled::Tree::insert: upsert, returns the previous value
sled_insert(t, kb, vb) == [tree |-> TreeWith(t, kb, vb), old |-> sled_get(t, kb)]

\* sled::Tree::remove
sled_remove(t, kb) == [tree |-> TreeWithout(t, kb), old |-> sled_get(t, kb)]

\* sled::Tree::contains_key
sled_contains_key(t, kb) == kb \in DOMAIN t

\* sled::Tree::len
sled_len(t) == Cardinality(DOMAIN t)

\* sled::Tree::iter, run to its end: all entries <<key, value>> in byte order
sled_iter(t) ==
    LET ks == SortedKeys(DOMAIN t)
    IN  [i \in 1..Len(ks) |-> <<ks[i], t[ks[i]]>>]

\* sled::Tree::first / last
sled_first(t) == IF DOMAIN t = {} THEN None ELSE Some(sled_iter(t)[1])
sled_last(t) == IF DOMAIN t = {} THEN None ELSE Some(sled_iter(t)[sled_len(t)])

\* sled::Tree::pop_max: take the last entry out
sled_pop_max(t) ==
    IF DOMAIN t = {} THEN [tree |-> t, old |-> None]
    ELSE [tree |-> TreeWithout(t, sled_last(t)[1][1]), old |-> sled_last(t)]

\* std::ops::Bound over byte strings or typed keys
Unbounded == [kind |-> "Unbounded", x |-> <<>>]
Included(x) == [kind |-> "Included", x |-> x]
Excluded(x) == [kind |-> "Excluded", x |-> x]

AboveStart(kb, lo) ==
    CASE lo.kind = "Unbounded" -> TRUE
      [] lo.kind = "Included"  -> BytesLeq(lo.x, kb)
      [] lo.kind = "Excluded"  -> BytesLess(lo.x, kb)

BelowEnd(kb, hi) ==
    CASE hi.kind = "Unbounded" -> TRUE
      [] hi.kind = "Included"  -> BytesLeq(kb, hi.x)
      [] hi.kind = "Excluded"  -> BytesLess(kb, hi.x)

\* sled::Tree::range((lo, hi)), run to its end
sled_range(t, lo, hi) ==
    LET ks == SortedKeys({kb \in DOMAIN t : AboveStart(kb, lo) /\ BelowEnd(kb, hi)})
    IN  [i \in 1..Len(ks) |-> <<ks[i], t[ks[i]]>>]

RECURSIVE Rev(_)
\* DoubleEndedIterator::rev, run to its end
Rev(s) == IF s = <<>> THEN <<>> ELSE Append(Rev(Tail(s)), Head(s))

----------------------------------------------------------------------------
(* RelaxedBincodeTree: every call names its key and value types *)

\* decode one stored entry as (K, V): Ok(<<key, value>>), or the first decode error
DecodeEntry(K, V, e) ==
    IF ~Decode(K, e[1]).ok THEN Err("decode")
    ELSE IF ~Decode(V, e[2]).ok THEN Err("decode")
    ELSE Ok(<<Decode(K, e[1]).val, Decode(V, e[2]).val>>)

\* decode an Option of stored bytes as V; a present value that does not decode is an error
DecodeOld(V, old) ==
    IF old = None THEN Ok(None)
    ELSE IF Decode(V, old[1]).ok THEN Ok(Some(Decode(V, old[1]).val))
    ELSE Err("decode")

\* decode an Option of a stored entry as (K, V)
DecodeOldEntry(K, V, old) ==
    IF old = None THEN Ok(None)
    ELSE IF DecodeEntry(K, V, old[1]).ok THEN Ok(Some(DecodeEntry(K, V, old[1]).val))
    ELSE Err("decode")

\* get that turns a value it cannot decode into None
get_swallows_decode_error(t, key, V) ==
    LET g == DecodeOld(V, sled_get(t, Encode(key)))
    IN  IF g.ok THEN g ELSE Ok(None)

\* fn get<K, V>(&self, key: &K) -> Result<Option<V>, Error>
get(t, key, V) == DecodeOld(V, sled_get(t, Encode(key)))

\* insert with the key bytes stored in place of the value bytes
insert_key_as_value(t, key, value) ==
    LET w == sled_insert(t, Encode(key), Encode(key))
    IN  [tree |-> w.tree, ret |-> DecodeOld(value.ty, w.old)]

\* insert that reads the previous value back after the write
insert_reads_after_write(t, key, value) ==
    LET w == sled_insert(t, Encode(key), Encode(value))
    IN  [tree |-> w.tree, ret |-> DecodeOld(value.ty, sled_get(w.tree, Encode(key)))]

\* insert that leaves a present key alone
insert_if_absent(t, key, value) ==
    LET w == sled_insert(t, Encode(key), Encode(value))
    IN  IF sled_contains_key(t, Encode(key))
        THEN [tree |-> t, ret |-> DecodeOld(value.ty, w.old)]
        ELSE [tree |-> w.tree, ret |-> DecodeOld(value.ty, w.old)]

\* insert that decodes the previous value before it writes, and does not
\* write when that fails
insert_decodes_before_write(t, key, value) ==
    LET old == DecodeOld(value.ty, sled_get(t, Encode(key)))
    IN  IF old.ok THEN [tree |-> sled_insert(t, Encode(key), Encode(value)).tree,
                        ret |-> old]
        ELSE [tree |-> t, ret |-> old]

\* fn insert<K, V>(&self, key: &K, value: &V) -> Result<Option<V>, Error>
\* the store is written first; the previous bytes are decoded as value's type
insert(t, key, value) ==
    LET w == sled_insert(t, Encode(key), Encode(value))
    IN  [tree |-> w.tree, ret |-> DecodeOld(value.ty, w.old)]

\* first that asks the store for its last entry
first_takes_last(t, K, V) == DecodeOldEntry(K, V, sled_last(t))

\* fn first<K, V>(&self) -> Result<Option<(K, V)>, Error>
first(t, K, V) == DecodeOldEntry(K, V, sled_first(t))

\* fn last<K, V>(&self) -> Result<Option<(K, V)>, Error>
last(t, K, V) == DecodeOldEntry(K, V, sled_last(t))

RECURSIVE FilterMapEntries(_, _, _)
\* filter_map over raw entries: keep those whose key and value both decode
FilterMapEntries(K, V, es) ==
    IF es = <<>> THEN <<>>
    ELSE LET d == DecodeEntry(K, V, Head(es))
         IN  (IF d.ok THEN <<d.val>> ELSE <<>>) \o FilterMapEntries(K, V, Tail(es))

RECURSIVE MapWhileEntries(_, _, _)
\* map_while over raw entries: stop at the first entry that does not decode
MapWhileEntries(K, V, es) ==
    IF es = <<>> THEN <<>>
    ELSE LET d == DecodeEntry(K, V, Head(es))
         IN  IF d.ok THEN <<d.val>> \o MapWhileEntries(K, V, Tail(es)) ELSE <<>>

\* iter that ends at the first entry it cannot decode
iter_stops_at_failure(t, K, V) == MapWhileEntries(K, V, sled_iter(t))

\* iter that walks the tree from its largest key
iter_from_back(t, K, V) == FilterMapEntries(K, V, Rev(sled_iter(t)))

\* fn iter<K, V>(&self) -> impl DoubleEndedIterator<Item = (K, V)>, run to its end
iter(t, K, V) == FilterMapEntries(K, V, sled_iter(t))

\* iter::<K, V>().rev(), run to its end: the filter is applied from the back
iter_rev(t, K, V) == FilterMapEntries(K, V, Rev(sled_iter(t)))

\* clear that removes the entries it can read as unsigned integers only
clear_decodable_only(t) ==
    [tree |-> [kb \in {o \in DOMAIN t :
                          ~(Decode("u64", o).ok /\ Decode("u64", t[o]).ok)} |-> t[kb]],
     ret |-> Ok(<<>>)]

\* fn clear(&self) -> Result<(), Error>
clear(t) == [tree |-> EmptyTree, ret |-> Ok(<<>>)]

\* fn contains_key<K>(&self, key: &K) -> Result<bool, Error>
contains_key(t, key) == Ok(sled_contains_key(t, Encode(key)))

\* pop_max that reads the last entry and leaves it in the tree
pop_max_keeps_entry(t, K, V) ==
    [tree |-> t, ret |-> DecodeOldEntry(K, V, sled_last(t))]

\* fn pop_max<K, V>(&self) -> Result<Option<(K, V)>, Error>
pop_max(t, K, V) ==
    LET w == sled_pop_max(t)
    IN  [tree |-> w.tree, ret |-> DecodeOldEntry(K, V, w.old)]

\* fn len(&self) -> usize
len(t) == sled_len(t)

\* remove that reads the value and leaves the entry in the tree
remove_only_reads(t, key, V) ==
    [tree |-> t, ret |-> DecodeOld(V, sled_get(t, Encode(key)))]

\* fn remove<K, V>(&self, key: &K) -> Result<Option<V>, Error>
remove(t, key, V) ==
    LET w == sled_remove(t, Encode(key))
    IN  [tree |-> w.tree, ret |-> DecodeOld(V, w.old)]

\* get_or_init that initialises whether or not the key is present
get_or_init_always(t, key, init) ==
    LET w == insert(t, key, init)
    IN  [tree |-> w.tree, ret |-> Ok(Some(init)), calls |-> 1]

\* fn get_or_init<F, K, T>(&self, key: K, init_func: F) -> Result<Option<T>, Error>
\* run without interference; calls counts the calls of init_func
get_or_init(t, key, init) ==
    LET g == get(t, key, init.ty)
    IN  IF ~g.ok THEN [tree |-> t, ret |-> g, calls |-> 0]
        ELSE IF g.val # None THEN [tree |-> t, ret |-> Ok(g.val), calls |-> 0]
        ELSE LET w == insert(t, key, init)
             IN  IF ~w.ret.ok THEN [tree |-> w.tree, ret |-> w.ret, calls |-> 1]
                 ELSE [tree |-> w.tree, ret |-> Ok(Some(init)), calls |-> 1]

\* bound translation that makes every present endpoint inclusive
EncodeBound_inclusive(b) ==
    CASE b.kind = "Included"  -> Included(Encode(b.x))
      [] b.kind = "Excluded"  -> Included(Encode(b.x))
      [] b.kind = "Unbounded" -> Unbounded

\* the bound translation of range: same shape, present endpoints encoded
EncodeBound(b) ==
    CASE b.kind = "Included"  -> Included(Encode(b.x))
      [] b.kind = "Excluded"  -> Excluded(Encode(b.x))
      [] b.kind = "Unbounded" -> Unbounded

\* fn range<K, R, V>(&self, range: R) -> Result<impl DoubleEndedIterator<Item = (K, V)>, Error>
\* query is the byte range handed to sled; items is the iterator run to its end
range(t, K, V, start, end) ==
    LET start_bound_bytes == EncodeBound(start)
        end_bound_bytes == EncodeBound(end)
    IN  [query |-> <<start_bound_bytes, end_bound_bytes>>,
         items |-> FilterMapEntries(K, V,
                       sled_range(t, start_bound_bytes, end_bound_bytes))]

RECURSIVE FilterMapValues(_, _)
\* filter_map over raw entries: the key bytes as they are, the value decoded;
\* entries whose value does not decode are left out
FilterMapValues(V, es) ==
    IF es = <<>> THEN <<>>
    ELSE LET d == Decode(V, Head(es)[2])
         IN  (IF d.ok THEN << <<Head(es)[1], d.val>> >> ELSE <<>>)
                 \o FilterMapValues(V, Tail(es))

\* range_key_bytes that does not hand its bounds to the store
range_key_bytes_whole_tree(t, V, lo, hi) == FilterMapValues(V, sled_iter(t))

\* fn range_key_bytes<K: AsRef<[u8]>, R: RangeBounds<K>, V>(&self, range: R)
\*     -> impl DoubleEndedIterator<Item = (Vec<u8>, V)>, run to its end
range_key_bytes(t, V, lo, hi) == FilterMapValues(V, sled_range(t, lo, hi))

----------------------------------------------------------------------------
(* Calls made on one tree handle, one at a time *)

\* keys and values the callers pass; u8 1 and u64 1 have the same encoding,
\* u8 251 is a strict prefix of the encoding of u64 300
KeyInputs == {T("u64", <<1>>), T("u64", <<2>>), T("u64", <<300>>),
              T("u8", <<1>>), T("u8", <<251>>)}
ValInputs == {T("u64", <<7>>), T("u64", <<8>>), T("u8", <<251>>), T("vec", <<2, 3>>)}
KTypes == {"u8", "u64", "vec"}
VTypes == {"u8", "u64", "vec"}

Callers == 1..NumCallers
Idle == [at |-> "idle", key |-> T("unit", <<>>), init |-> T("unit", <<>>)]

Init ==
    /\ tree = EmptyTree
    /\ res = [op |-> "new"]
    /\ cfgval = None
    /\ handles = <<>>
    /\ pc = [p \in Callers |-> Idle]
    /\ seen = [p \in Callers |-> Ok(None)]
    /\ ret = [p \in Callers |-> Ok(None)]
    /\ writes = <<>>
    /\ db = <<>>
    /\ opened = <<>>

\* the tree has room for key
HasRoom(key) == Encode(key) \in DOMAIN tree \/ sled_len(tree) < MaxEntries

CallInsert ==
    \E key \in KeyInputs, value \in ValInputs :
        /\ HasRoom(key)
        /\ tree' = insert(tree, key, value).tree
        /\ res' = [op |-> "insert", key |-> key, value |-> value,
                   ret |-> insert(tree, key, value).ret]
        /\ UNCHANGED <<cfgval, handles, pc, seen, ret, writes, db, opened>>

CallGet ==
    \E key \in KeyInputs, V \in VTypes :
        /\ res' = [op |-> "get", key |-> key, V |-> V, ret |-> get(tree, key, V)]
        /\ UNCHANGED <<tree, cfgval, handles, pc, seen, ret, writes, db, opened>>

CallRemove ==
    \E key \in KeyInputs, V \in VTypes :
        /\ tree' = remove(tree, key, V).tree
        /\ res' = [op |-> "remove", key |-> key, V |-> V, ret |-> remove(tree, key, V).ret]
        /\ UNCHANGED <<cfgval, handles, pc, seen, ret, writes, db, opened>>

CallContainsKey ==
    \E key \in KeyInputs :
        /\ res' = [op |-> "contains_key", key |-> key, ret |-> contains_key(tree, key)]
        /\ UNCHANGED <<tree, cfgval, handles, pc, seen, ret, writes, db, opened>>

CallClear ==
    /\ tree' = clear(tree).tree
    /\ res' = [op |-> "clear", had |-> len(tree), ret |-> clear(tree).ret]
    /\ UNCHANGED <<cfgval, handles, pc, seen, ret, writes, db, opened>>

CallPopMax ==
    \E K \in KTypes, V \in VTypes :
        /\ tree' = pop_max(tree, K, V).tree
        /\ res' = [op |-> "pop_max", K |-> K, V |-> V, ret |-> pop_max(tree, K, V).ret]
        /\ UNCHANGED <<cfgval, handles, pc, seen, ret, writes, db, opened>>

CallFirst ==
    \E K \in KTypes, V \in VTypes :
        /\ res' = [op |-> "first", K |-> K, V |-> V, ret |-> first(tree, K, V)]
        /\ UNCHANGED <<tree, cfgval, handles, pc, seen, ret, writes, db, opened>>

CallLast ==
    \E K \in KTypes, V \in VTypes :
        /\ res' = [op |-> "last", K |-> K, V |-> V, ret |-> last(tree, K, V)]
        /\ UNCHANGED <<tree, cfgval, handles, pc, seen, ret, writes, db, opened>>

CallLen ==
    /\ res' = [op |-> "len", ret |-> len(tree)]
    /\ UNCHANGED <<tree, cfgval, handles, pc, seen, ret, writes, db, opened>>

CallGetOrInit ==
    \E key \in KeyInputs, init \in ValInputs :
        /\ HasRoom(key)
        /\ tree' = get_or_init(tree, key, init).tree
        /\ res' = [op |-> "get_or_init", key |-> key, init |-> init,
                   ret |-> get_or_init(tree, key, init).ret,
                   calls |-> get_or_init(tree, key, init).calls]
        /\ UNCHANGED <<cfgval, handles, pc, seen, ret, writes, db, opened>>

Next ==
    \/ CallInsert
    \/ CallGet
    \/ CallRemove
    \/ CallContainsKey
    \/ CallClear
    \/ CallPopMax
    \/ CallFirst
    \/ CallLast
    \/ CallLen
    \/ CallGetOrInit

Spec == Init /\ [][Next]_vars

----------------------------------------------------------------------------
(* Scans of a tree that is not written while the scan runs *)

\* range is called with unsigned integer bounds
Bounds ==
    LET u64s == {x \in KeyInputs : x.ty = "u64"}
    IN  {Unbounded} \cup {Included(k) : k \in u64s} \cup {Excluded(k) : k \in u64s}
RangeVTypes == {"u64", "vec"}

CallIter ==
    \E K \in KTypes, V \in VTypes :
        /\ res' = [op |-> "iter", K |-> K, V |-> V, items |-> iter(tree, K, V)]
        /\ UNCHANGED <<tree, cfgval, handles, pc, seen, ret, writes, db, opened>>

CallIterRev ==
    \E K \in KTypes, V \in VTypes :
        /\ res' = [op |-> "iter_rev", K |-> K, V |-> V, items |-> iter_rev(tree, K, V)]
        /\ UNCHANGED <<tree, cfgval, handles, pc, seen, ret, writes, db, opened>>

CallRange ==
    \E V \in RangeVTypes, start \in Bounds, end \in Bounds :
        LET r == range(tree, "u64", V, start, end)
        IN  /\ res' = [op |-> "range", K |-> "u64", V |-> V,
                       start |-> start, end |-> end,
                       query |-> r.query, items |-> r.items]
            /\ UNCHANGED <<tree, cfgval, handles, pc, seen, ret, writes, db, opened>>

NextScan ==
    \/ CallInsert
    \/ CallIter
    \/ CallIterRev
    \/ CallRange

SpecScan == Init /\ [][NextScan]_vars

----------------------------------------------------------------------------
(* Scans by raw key bytes *)

\* range_key_bytes is called with byte strings; <<251>> is not a stored key of
\* an unsigned integer but a prefix of one
ByteBounds ==
    LET bytes == {<<1>>, <<2>>, <<251>>}
    IN  {Unbounded} \cup {Included(b) : b \in bytes} \cup {Excluded(b) : b \in bytes}

CallRangeKeyBytes ==
    \E V \in RangeVTypes, lo \in ByteBounds, hi \in ByteBounds :
        /\ res' = [op |-> "range_key_bytes", V |-> V, lo |-> lo, hi |-> hi,
                   items |-> range_key_bytes(tree, V, lo, hi)]
        /\ UNCHANGED <<tree, cfgval, handles, pc, seen, ret, writes, db, opened>>

NextBytes ==
    \/ CallInsert
    \/ CallRangeKeyBytes

SpecBytes == Init /\ [][NextBytes]_vars

----------------------------------------------------------------------------
(* get_or_init called by several callers at once: its get and its insert   *)
(* are two separate calls on the store                                     *)

RaceKeys == {T("u64", <<1>>), T("u64", <<2>>)}
RaceInits == {T("u64", <<7>>), T("u64", <<8>>), T("u8", <<251>>)}

\* a caller enters get_or_init(key, || init)
GoiCall(p) ==
    \E key \in RaceKeys, init \in RaceInits :
        /\ pc[p].at = "idle"
        /\ pc' = [pc EXCEPT ![p] = [at |-> "get", key |-> key, init |-> init]]
        /\ UNCHANGED <<tree, res, cfgval, handles, seen, ret, writes, db, opened>>

\* let res = match self.get(&key)? { Some(v) => Some(v), None => ... }
GoiGet(p) ==
    /\ pc[p].at = "get"
    /\ LET g == get(tree, pc[p].key, pc[p].init.ty)
       IN  /\ seen' = [seen EXCEPT ![p] = g]
           /\ IF g.ok /\ g.val = None
              THEN /\ pc' = [pc EXCEPT ![p].at = "insert"]
                   /\ ret' = ret
              ELSE /\ pc' = [pc EXCEPT ![p].at = "done"]
                   /\ ret' = [ret EXCEPT ![p] = g]
    /\ UNCHANGED <<tree, res, cfgval, handles, writes, db, opened>>

\* let value = init_func(); let _ = self.insert(&key, &value)?; Some(value)
GoiInsert(p) ==
    /\ pc[p].at = "insert"
    /\ LET w == insert(tree, pc[p].key, pc[p].init)
       IN  /\ tree' = w.tree
           /\ ret' = [ret EXCEPT ![p] = IF w.ret.ok THEN Ok(Some(pc[p].init)) ELSE w.ret]
    /\ writes' = Append(writes, p)
    /\ pc' = [pc EXCEPT ![p].at = "done"]
    /\ UNCHANGED <<res, cfgval, handles, seen, db, opened>>

NextRace ==
    \/ \E p \in Callers : GoiCall(p)
    \/ \E p \in Callers : GoiGet(p)
    \/ \E p \in Callers : GoiInsert(p)

SpecRace == Init /\ [][NextRace]_vars

----------------------------------------------------------------------------
(* The serialiser mode of a store, kept under CONFIGUATION_TREE_KEY *)

SerialiserMode == {"BINCODE"}

\* impl AsRef<[u8]> for SerialiserMode
as_ref(mode) == CASE mode = "BINCODE" -> <<0>>

\* values other users of the sled db put under the reserved key
MarkerInputs == {T("u8", <<0>>), T("u8", <<7>>), T("arr2", <<0, 9>>),
                 T("unit", <<>>), T("vec", <<>>), T("vec", <<0>>), T("u64", <<300>>)}

\* open that writes the requested mode whatever it finds
new_always_writes(cfg, ser_mode) ==
    [cfg |-> Some(as_ref(ser_mode)), ser_mode |-> ser_mode]

\* open that accepts a stored marker only when it is the tag byte and nothing else
new_exact_match(cfg, ser_mode) ==
    IF cfg # None /\ cfg[1] = <<0>>
    THEN [cfg |-> cfg, ser_mode |-> "BINCODE"]
    ELSE [cfg |-> Some(as_ref(ser_mode)), ser_mode |-> ser_mode]

\* open that adopts the requested mode without storing it
new_never_writes(cfg, ser_mode) ==
    IF cfg # None /\ cfg[1] # <<>> /\ cfg[1][1] = 0
    THEN [cfg |-> cfg, ser_mode |-> "BINCODE"]
    ELSE [cfg |-> cfg, ser_mode |-> ser_mode]

\* SerSledDb::new_from_config_or_else(sled_db, ser_mode): cfg is what the db
\* holds under the reserved key; returns what it holds afterwards and the
\* ser_mode of the handle
new_from_config_or_else(cfg, ser_mode) ==
    IF cfg # None /\ cfg[1] # <<>> /\ cfg[1][1] = 0
    THEN [cfg |-> cfg, ser_mode |-> "BINCODE"]
    ELSE [cfg |-> Some(as_ref(ser_mode)), ser_mode |-> ser_mode]

CallNew ==
    \E ser_mode \in SerialiserMode :
        LET r == new_from_config_or_else(cfgval, ser_mode)
        IN  /\ Len(handles) < MaxHandles
            /\ cfgval' = r.cfg
            /\ handles' = Append(handles, [ser_mode |-> r.ser_mode])
            /\ res' = [op |-> "new_from_config_or_else", asked |-> ser_mode,
                       found |-> cfgval, ret |-> Ok(r.ser_mode)]
            /\ UNCHANGED <<tree, pc, seen, ret, writes, db, opened>>

\* SerSledTree::new(db tree, mode).insert_key_bytes(CONFIGUATION_TREE_KEY, value)
CallInsertKeyBytes ==
    \E value \in MarkerInputs :
        /\ cfgval' = Some(Encode(value))
        /\ res' = [op |-> "insert_key_bytes", value |-> value,
                   ret |-> DecodeOld(value.ty, cfgval)]
        /\ UNCHANGED <<tree, handles, pc, seen, ret, writes, db, opened>>

NextMode ==
    \/ CallNew
    \/ CallInsertKeyBytes

SpecMode == Init /\ [][NextMode]_vars

----------------------------------------------------------------------------
(* Named trees of one db, reached through the handles open_tree returns *)

DbVals == {T("u64", <<7>>), T("u8", <<251>>)}
DbVTypes == {"u64", "u8"}

\* open_tree that opens one and the same tree whatever name it is given
open_tree_ignores_name(d, ser_mode, tree_name) ==
    [db |-> [n \in DOMAIN d \cup {"a"} |-> IF n \in DOMAIN d THEN d[n] ELSE EmptyTree],
     ret |-> Ok([asked |-> tree_name, inner_tree |-> "a", ser_mode |-> ser_mode])]

\* SerSledDb::open_tree(&self, tree_name): sled opens the tree of that name,
\* creating it empty if the db has none; the handle refers to that tree and
\* carries the ser_mode of the db handle
open_tree(d, ser_mode, tree_name) ==
    [db |-> [n \in DOMAIN d \cup {tree_name} |->
                IF n \in DOMAIN d THEN d[n] ELSE EmptyTree],
     ret |-> Ok([asked |-> tree_name, inner_tree |-> tree_name, ser_mode |-> ser_mode])]

\* the contents a tree handle reads and writes
TreeOf(d, h) == d[h.inner_tree]

CallOpenTree ==
    \E i \in 1..Len(handles), tree_name \in {"a", "b"} :
        LET r == open_tree(db, handles[i].ser_mode, tree_name)
        IN  /\ Len(opened) < MaxOpened
            /\ db' = r.db
            /\ opened' = Append(opened, r.ret.val)
            /\ res' = [op |-> "open_tree", name |-> tree_name, ret |-> r.ret]
            /\ UNCHANGED <<tree, cfgval, handles, pc, seen, ret, writes>>

HandleInsert ==
    \E i \in 1..Len(opened), key \in RaceKeys, value \in DbVals :
        LET w == insert(TreeOf(db, opened[i]), key, value)
        IN  /\ db' = [db EXCEPT ![opened[i].inner_tree] = w.tree]
            /\ res' = [op |-> "insert", handle |-> i, key |-> key, value |-> value,
                       ret |-> w.ret]
            /\ UNCHANGED <<tree, cfgval, handles, pc, seen, ret, writes, opened>>

HandleRemove ==
    \E i \in 1..Len(opened), key \in RaceKeys, V \in DbVTypes :
        LET w == remove(TreeOf(db, opened[i]), key, V)
        IN  /\ db' = [db EXCEPT ![opened[i].inner_tree] = w.tree]
            /\ res' = [op |-> "remove", handle |-> i, key |-> key, V |-> V,
                       ret |-> w.ret]
            /\ UNCHANGED <<tree, cfgval, handles, pc, seen, ret, writes, opened>>

HandlePopMax ==
    \E i \in 1..Len(opened), V \in DbVTypes :
        LET w == pop_max(TreeOf(db, opened[i]), "u64", V)
        IN  /\ db' = [db EXCEPT ![opened[i].inner_tree] = w.tree]
            /\ res' = [op |-> "pop_max", handle |-> i, K |-> "u64", V |-> V,
                       ret |-> w.ret]
            /\ UNCHANGED <<tree, cfgval, handles, pc, seen, ret, writes, opened>>

HandleClear ==
    \E i \in 1..Len(opened) :
        LET w == clear(TreeOf(db, opened[i]))
        IN  /\ db' = [db EXCEPT ![opened[i].inner_tree] = w.tree]
            /\ res' = [op |-> "clear", handle |-> i, ret |-> w.ret]
            /\ UNCHANGED <<tree, cfgval, handles, pc, seen, ret, writes, opened>>

HandleGet ==
    \E i \in 1..Len(opened), key \in RaceKeys, V \in DbVTypes :
        /\ res' = [op |-> "get", handle |-> i, key |-> key, V |-> V,
                   ret |-> get(TreeOf(db, opened[i]), key, V)]
        /\ UNCHANGED <<tree, cfgval, handles, pc, seen, ret, writes, db, opened>>

NextDb ==
    \/ CallOpenTree
    \/ HandleInsert
    \/ HandleRemove
    \/ HandlePopMax
    \/ HandleClear
    \/ HandleGet

\* the state after SerSledDb::new_from_config_or_else on a fresh sled db
InitDb ==
    \E ser_mode \in SerialiserMode :
        LET r == new_from_config_or_else(None, ser_mode)
        IN  /\ tree = EmptyTree
            /\ res = [op |-> "new_from_config_or_else", asked |-> ser_mode,
                      found |-> None, ret |-> Ok(r.ser_mode)]
            /\ cfgval = r.cfg
            /\ handles = <<[ser_mode |-> r.ser_mode]>>
            /\ pc = [p \in Callers |-> Idle]
            /\ seen = [p \in Callers |-> Ok(None)]
            /\ ret = [p \in Callers |-> Ok(None)]
            /\ writes = <<>>
            /\ db = <<>>
            /\ opened = <<>>

SpecDb == InitDb /\ [][NextDb]_vars

----------------------------------------------------------------------------
(* The same calls on a store whose calls can fail (I/O, corruption) *)

\* what a call of this layer returns for an error of the store: Error::SledError
SledError == Err("sled")

\* how a call on the store ends
IoOutcomes == {"ok", "fails"}

\* `self.inner_tree.<call>(..)?` in get, insert, remove, contains_key, first,
\* last, pop_max and clear: when the call on the store fails, the method
\* returns the store's error and the contents are as they were; otherwise it
\* goes on to the result w
try_store(io, t, w) ==
    IF io = "fails" THEN [tree |-> t, ret |-> SledError] ELSE w

\* the results the store's iterator produces for the entries es when its
\* reads at the positions in faults fail
RawResults(es, faults) ==
    [i \in 1..Len(es) |-> IF i \in faults THEN SledError ELSE Ok(es[i])]

\* the closure of filter_map in iter and range, applied to one result of the
\* store's iterator: the items and the store errors it hands to the caller
EntryClosure(K, V, r) ==
    IF r.ok
    THEN LET d == DecodeEntry(K, V, r.val)
         IN  [items |-> IF d.ok THEN <<d.val>> ELSE <<>>, errors |-> <<>>]
    ELSE [items |-> <<>>, errors |-> <<>>]       \* Err(_) => None

\* the closure of filter_map in range_key_bytes
ValueClosure(V, r) ==
    IF r.ok
    THEN LET d == Decode(V, r.val[2])
         IN  [items |-> IF d.ok THEN << <<r.val[1], d.val>> >> ELSE <<>>,
              errors |-> <<>>]
    ELSE [items |-> <<>>, errors |-> <<>>]       \* Err(_) => None

RECURSIVE FilterMapResults(_, _, _)
\* filter_map over the results of the store's iterator, run to its end
FilterMapResults(K, V, rs) ==
    IF rs = <<>> THEN [items |-> <<>>, errors |-> <<>>]
    ELSE LET h == EntryClosure(K, V, Head(rs))
             rest == FilterMapResults(K, V, Tail(rs))
         IN  [items |-> h.items \o rest.items, errors |-> h.errors \o rest.errors]

RECURSIVE FilterMapValueResults(_, _)
FilterMapValueResults(V, rs) ==
    IF rs = <<>> THEN [items |-> <<>>, errors |-> <<>>]
    ELSE LET h == ValueClosure(V, Head(rs))
             rest == FilterMapValueResults(V, Tail(rs))
         IN  [items |-> h.items \o rest.items, errors |-> h.errors \o rest.errors]

\* iter on a store whose reads at the positions in faults fail
iter_io(faults, t, K, V) ==
    FilterMapResults(K, V, RawResults(sled_iter(t), faults))

\* range on such a store
range_io(faults, t, K, V, start, end) ==
    FilterMapResults(K, V,
        RawResults(sled_range(t, EncodeBound(start), EncodeBound(end)), faults))

\* range_key_bytes on such a store
range_key_bytes_io(faults, t, V, lo, hi) ==
    FilterMapValueResults(V, RawResults(sled_range(t, lo, hi), faults))

IoGet ==
    \E io \in IoOutcomes, key \in RaceKeys, V \in DbVTypes :
        LET w == try_store(io, tree, [tree |-> tree, ret |-> get(tree, key, V)])
        IN  /\ res' = [op |-> "get", failed |-> io = "fails", key |-> key, V |-> V,
                       ret |-> w.ret]
            /\ UNCHANGED <<tree, cfgval, handles, pc, seen, ret, writes, db, opened>>

IoInsert ==
    \E io \in IoOutcomes, key \in RaceKeys, value \in DbVals :
        LET w == try_store(io, tree, insert(tree, key, value))
        IN  /\ tree' = w.tree
            /\ res' = [op |-> "insert", failed |-> io = "fails", key |-> key,
                       value |-> value, ret |-> w.ret]
            /\ UNCHANGED <<cfgval, handles, pc, seen, ret, writes, db, opened>>

IoRemove ==
    \E io \in IoOutcomes, key \in RaceKeys, V \in DbVTypes :
        LET w == try_store(io, tree, remove(tree, key, V))
        IN  /\ tree' = w.tree
            /\ res' = [op |-> "remove", failed |-> io = "fails", key |-> key,
                       V |-> V, ret |-> w.ret]
            /\ UNCHANGED <<cfgval, handles, pc, seen, ret, writes, db, opened>>

IoContainsKey ==
    \E io \in IoOutcomes, key \in RaceKeys :
        LET w == try_store(io, tree, [tree |-> tree, ret |-> contains_key(tree, key)])
        IN  /\ res' = [op |-> "contains_key", failed |-> io = "fails", key |-> key,
                       ret |-> w.ret]
            /\ UNCHANGED <<tree, cfgval, handles, pc, seen, ret, writes, db, opened>>

IoFirst ==
    \E io \in IoOutcomes, V \in DbVTypes :
        LET w == try_store(io, tree, [tree |-> tree, ret |-> first(tree, "u64", V)])
        IN  /\ res' = [op |-> "first", failed |-> io = "fails", K |-> "u64", V |-> V,
                       ret |-> w.ret]
            /\ UNCHANGED <<tree, cfgval, handles, pc, seen, ret, writes, db, opened>>

IoLast ==
    \E io \in IoOutcomes, V \in DbVTypes :
        LET w == try_store(io, tree, [tree |-> tree, ret |-> last(tree, "u64", V)])
        IN  /\ res' = [op |-> "last", failed |-> io = "fails", K |-> "u64", V |-> V,
                       ret |-> w.ret]
            /\ UNCHANGED <<tree, cfgval, handles, pc, seen, ret, writes, db, opened>>

IoPopMax ==
    \E io \in IoOutcomes, V \in DbVTypes :
        LET w == try_store(io, tree, pop_max(tree, "u64", V))
        IN  /\ tree' = w.tree
            /\ res' = [op |-> "pop_max", failed |-> io = "fails", K |-> "u64",
                       V |-> V, ret |-> w.ret]
            /\ UNCHANGED <<cfgval, handles, pc, seen, ret, writes, db, opened>>

IoClear ==
    \E io \in IoOutcomes :
        LET w == try_store(io, tree, clear(tree))
        IN  /\ tree' = w.tree
            /\ res' = [op |-> "clear", failed |-> io = "fails", had |-> len(tree),
                       ret |-> w.ret]
            /\ UNCHANGED <<cfgval, handles, pc, seen, ret, writes, db, opened>>

\* faults: the positions at which the scan's reads of the store fail
IoIter ==
    \E V \in DbVTypes, faults \in SUBSET DOMAIN sled_iter(tree) :
        LET r == iter_io(faults, tree, "u64", V)
        IN  /\ res' = [op |-> "iter", failed |-> faults # {}, faults |-> faults,
                       K |-> "u64", V |-> V,
                       items |-> r.items, errors |-> r.errors]
            /\ UNCHANGED <<tree, cfgval, handles, pc, seen, ret, writes, db, opened>>

IoRange ==
    \E V \in DbVTypes, start \in Bounds, end \in Bounds :
        \E faults \in SUBSET DOMAIN sled_range(tree, EncodeBound(start), EncodeBound(end)) :
            LET r == range_io(faults, tree, "u64", V, start, end)
            IN  /\ res' = [op |-> "range", failed |-> faults # {}, faults |-> faults,
                           K |-> "u64", V |-> V, start |-> start, end |-> end,
                           items |-> r.items, errors |-> r.errors]
                /\ UNCHANGED <<tree, cfgval, handles, pc, seen, ret, writes, db, opened>>

IoRangeKeyBytes ==
    \E V \in DbVTypes, lo \in ByteBounds, hi \in ByteBounds :
        \E faults \in SUBSET DOMAIN sled_range(tree, lo, hi) :
            LET r == range_key_bytes_io(faults, tree, V, lo, hi)
            IN  /\ res' = [op |-> "range_key_bytes", failed |-> faults # {},
                           faults |-> faults, V |-> V, lo |-> lo, hi |-> hi,
                           items |-> r.items, errors |-> r.errors]
                /\ UNCHANGED <<tree, cfgval, handles, pc, seen, ret, writes, db, opened>>

NextIo ==
    \/ IoGet
    \/ IoInsert
    \/ IoRemove
    \/ IoContainsKey
    \/ IoFirst
    \/ IoLast
    \/ IoPopMax
    \/ IoClear
    \/ IoIter
    \/ IoRange
    \/ IoRangeKeyBytes

SpecIo == Init /\ [][NextIo]_vars

----------------------------------------------------------------------------
(* Opening a store whose calls on the reserved key can fail *)

\* open that drops the result of the write and goes on with the asked mode
new_ignores_write_failure(rd, wr, cfg, ser_mode) ==
    IF rd = "fails" THEN [cfg |-> cfg, ret |-> SledError]
    ELSE IF cfg # None /\ cfg[1] # <<>> /\ cfg[1][1] = 0
    THEN [cfg |-> cfg, ret |-> Ok("BINCODE")]
    ELSE IF wr = "fails" THEN [cfg |-> cfg, ret |-> Ok(ser_mode)]
    ELSE [cfg |-> Some(as_ref(ser_mode)), ret |-> Ok(ser_mode)]

\* SerSledDb::new_from_config_or_else(sled_db, ser_mode) where the get of the
\* reserved key ends as rd and the insert, if it comes to one, as wr; ret is
\* the ser_mode of the handle or the store's error
new_from_config_or_else_io(rd, wr, cfg, ser_mode) ==
    IF rd = "fails" THEN [cfg |-> cfg, ret |-> SledError]
    ELSE IF cfg # None /\ cfg[1] # <<>> /\ cfg[1][1] = 0
    THEN [cfg |-> cfg, ret |-> Ok("BINCODE")]
    ELSE IF wr = "fails" THEN [cfg |-> cfg, ret |-> SledError]
    ELSE [cfg |-> Some(as_ref(ser_mode)), ret |-> Ok(ser_mode)]

IoNew ==
    \E ser_mode \in SerialiserMode, rd \in IoOutcomes, wr \in IoOutcomes :
        LET r == new_from_config_or_else_io(rd, wr, cfgval, ser_mode)
        IN  /\ Len(handles) < MaxHandles
            /\ cfgval' = r.cfg
            /\ handles' = IF r.ret.ok THEN Append(handles, [ser_mode |-> r.ret.val])
                          ELSE handles
            /\ res' = [op |-> "new_from_config_or_else", asked |-> ser_mode,
                       found |-> cfgval, read |-> rd, write |-> wr, ret |-> r.ret]
            /\ UNCHANGED <<tree, pc, seen, ret, writes, db, opened>>

NextOpenIo ==
    \/ IoNew
    \/ CallInsertKeyBytes

SpecOpenIo == Init /\ [][NextOpenIo]_vars

----------------------------------------------------------------------------
(* The codec on pairs of keys of every ordered key type *)

\* keys of the types callers order by: unsigned and signed integers, fixed
\* arrays, byte vectors (a string is encoded as the vector of its bytes); the
\* integers lie around the places where the encoding changes its form
\* (250 | 251, 65535 | 65536) and where a byte carries over
OrderKeys ==
    {T("u64", <<n>>) : n \in {0, 1, 2, 5, 249, 250, 251, 252, 255, 256, 257, 300,
                              511, 512, 65535, 65536, 65537, 16777215, 16777216,
                              2147483647}}
        \cup {T("u8", <<n>>) : n \in {0, 1, 2, 127, 128, 250, 251, 255}}
        \cup {T("i64", <<n>>) : n \in {-300, -126, -125, -2, -1, 0, 1, 2, 125, 126, 300}}
        \cup {T("arr2", <<x, y>>) : x \in {0, 1, 255}, y \in {0, 255}}
        \cup {T("vec", v) : v \in {<<>>, <<0>>, <<0, 0>>, <<1>>, <<1, 0>>, <<255>>,
                                   <<97>>, <<97, 98>>, <<98>>}}

\* pairs of keys of one type
OrderPairs == {p \in OrderKeys \X OrderKeys : p[1].ty = p[2].ty}

\* a < b in the order of their Rust type: integers by value, arrays and
\* vectors element by element with a proper prefix first
TypedLess(a, b) ==
    IF a.ty \in {"u8", "u64", "i64"} THEN a.v[1] < b.v[1]
    ELSE BytesLess(a.v, b.v)

\* a caller holds two keys a and b of one ordered type
InitCodec ==
    /\ \E p \in OrderPairs : res = [op |-> "keys", a |-> p[1], b |-> p[2]]
    /\ tree = EmptyTree
    /\ cfgval = None
    /\ handles = <<>>
    /\ pc = [p \in Callers |-> Idle]
    /\ seen = [p \in Callers |-> Ok(None)]
    /\ ret = [p \in Callers |-> Ok(None)]
    /\ writes = <<>>
    /\ db = <<>>
    /\ opened = <<>>

\* the caller encodes both keys, as insert does
CallEncode ==
    /\ res.op = "keys"
    /\ res' = [op |-> "encode", a |-> res.a, b |-> res.b,
               ea |-> Encode(res.a), eb |-> Encode(res.b)]
    /\ UNCHANGED <<tree, cfgval, handles, pc, seen, ret, writes, db, opened>>

\* the caller inserts both keys into an empty tree and asks for the ends
CallInsertBoth ==
    /\ res.op = "encode"
    /\ LET t2 == insert(insert(EmptyTree, res.a, T("unit", <<>>)).tree,
                        res.b, T("unit", <<>>)).tree
           K == res.a.ty
       IN  /\ tree' = t2
           /\ res' = [op |-> "ends", a |-> res.a, b |-> res.b,
                      first |-> first(t2, K, "unit"),
                      last |-> last(t2, K, "unit"),
                      pop_max |-> pop_max(t2, K, "unit").ret,
                      range |-> range(t2, K, "unit",
                                      Included(res.a), Excluded(res.b)).items]
    /\ UNCHANGED <<cfgval, handles, pc, seen, ret, writes, db, opened>>

NextCodec ==
    \/ CallEncode
    \/ CallInsertBoth

SpecCodec == InitCodec /\ [][NextCodec]_vars

----------------------------------------------------------------------------
(* A value on its way through the codec and through the store *)

\* keys and values of every modelled type, around the places where the
\* encoding changes its form
RoundVals ==
    {T("u8", <<b>>) : b \in {0, 251, 255}}
        \cup {T("u64", <<n>>) : n \in {0, 250, 251, 300, 65535, 65536, 2147483647}}
        \cup {T("i64", <<n>>) : n \in {-65536, -126, -125, -1, 0, 1, 125, 126, 40000}}
        \cup {T("vec", v) : v \in {<<>>, <<0>>, <<2, 3>>, <<251, 0, 7>>}}
        \cup {T("arr1", <<7>>), T("arr2", <<251, 0>>), T("unit", <<>>)}

\* a caller holds a key and a value
InitRound ==
    /\ \E k \in {T("u64", <<1>>), T("u64", <<300>>), T("i64", <<-2>>),
                T("vec", <<97, 98>>), T("arr2", <<0, 255>>)},
          v \in RoundVals :
            res = [op |-> "pair", key |-> k, value |-> v]
    /\ tree = EmptyTree
    /\ cfgval = None
    /\ handles = <<>>
    /\ pc = [p \in Callers |-> Idle]
    /\ seen = [p \in Callers |-> Ok(None)]
    /\ ret = [p \in Callers |-> Ok(None)]
    /\ writes = <<>>
    /\ db = <<>>
    /\ opened = <<>>

\* encode_to_vec on both, then decode_borrowed_from_slice on the bytes
CallRoundTrip ==
    /\ res.op = "pair"
    /\ res' = [op |-> "round_trip", key |-> res.key, value |-> res.value,
               key_back |-> Decode(res.key.ty, Encode(res.key)),
               value_back |-> Decode(res.value.ty, Encode(res.value))]
    /\ UNCHANGED <<tree, cfgval, handles, pc, seen, ret, writes, db, opened>>

\* insert(key, value) on the empty tree
CallRoundInsert ==
    /\ res.op = "round_trip"
    /\ LET w == insert(tree, res.key, res.value)
       IN  /\ tree' = w.tree
           /\ res' = [op |-> "insert", key |-> res.key, value |-> res.value,
                      ret |-> w.ret]
    /\ UNCHANGED <<cfgval, handles, pc, seen, ret, writes, db, opened>>

\* the reads of the entry with the types it was written with
CallRoundRead ==
    /\ res.op = "insert"
    /\ LET K == res.key.ty
           V == res.value.ty
       IN  res' = [op |-> "read", key |-> res.key, value |-> res.value,
                   get |-> get(tree, res.key, V),
                   first |-> first(tree, K, V),
                   last |-> last(tree, K, V),
                   iter |-> iter(tree, K, V),
                   range |-> range(tree, K, V, Included(res.key),
                                   Included(res.key)).items]
    /\ UNCHANGED <<tree, cfgval, handles, pc, seen, ret, writes, db, opened>>

NextRound ==
    \/ CallRoundTrip
    \/ CallRoundInsert
    \/ CallRoundRead

SpecRound == InitRound /\ [][NextRound]_vars

----------------------------------------------------------------------------
(* BincodeTree<K, V>: the type-strict tree, beside a relaxed handle on the *)
(* same tree                                                               *)

\* the type parameters of the strict handle: BincodeTree<u64, u64>
StrictK == "u64"
StrictV == "u64"

\* a strict handle made on a tree of its own
inner_tree_of_its_own(t) == EmptyTree

\* inner_tree: RelaxedBincodeTree::new(tree), the relaxed handle inside the
\* strict one, on the tree the strict handle was made for
inner_tree(t) == t

\* fn get(&self, key: &Self::Key): self.inner_tree.get(key)
StrictCallGet ==
    \E key \in {k \in KeyInputs : k.ty = StrictK} :
        /\ res' = [op |-> "strict_get", key |-> key,
                   ret |-> get(inner_tree(tree), key, StrictV)]
        /\ UNCHANGED <<tree, cfgval, handles, pc, seen, ret, writes, db, opened>>

\* fn get_or_init(&self, key, init_func): self.inner_tree.get_or_init(key, init_func)
StrictCallGetOrInit ==
    \E key \in {k \in KeyInputs : k.ty = StrictK},
       init \in {v \in ValInputs : v.ty = StrictV} :
        LET w == get_or_init(inner_tree(tree), key, init)
        IN  /\ HasRoom(key)
            /\ tree' = w.tree
            /\ res' = [op |-> "strict_get_or_init", key |-> key, init |-> init,
                       ret |-> w.ret]
            /\ UNCHANGED <<cfgval, handles, pc, seen, ret, writes, db, opened>>

\* fn insert(&self, key, value): self.inner_tree.insert(key, value)
StrictCallInsert ==
    \E key \in {k \in KeyInputs : k.ty = StrictK},
       value \in {v \in ValInputs : v.ty = StrictV} :
        LET w == insert(inner_tree(tree), key, value)
        IN  /\ HasRoom(key)
            /\ tree' = w.tree
            /\ res' = [op |-> "strict_insert", key |-> key, value |-> value,
                       ret |-> w.ret]
            /\ UNCHANGED <<cfgval, handles, pc, seen, ret, writes, db, opened>>

\* fn first(&self): self.inner_tree.first()
StrictCallFirst ==
    /\ res' = [op |-> "strict_first", ret |-> first(inner_tree(tree), StrictK, StrictV)]
    /\ UNCHANGED <<tree, cfgval, handles, pc, seen, ret, writes, db, opened>>

\* fn last(&self): self.inner_tree.last()
StrictCallLast ==
    /\ res' = [op |-> "strict_last", ret |-> last(inner_tree(tree), StrictK, StrictV)]
    /\ UNCHANGED <<tree, cfgval, handles, pc, seen, ret, writes, db, opened>>

\* fn pop_max(&self): self.inner_tree.pop_max()
StrictCallPopMax ==
    LET w == pop_max(inner_tree(tree), StrictK, StrictV)
    IN  /\ tree' = w.tree
        /\ res' = [op |-> "strict_pop_max", ret |-> w.ret]
        /\ UNCHANGED <<cfgval, handles, pc, seen, ret, writes, db, opened>>

\* fn iter(&self): self.inner_tree.iter()
StrictCallIter ==
    /\ res' = [op |-> "strict_iter", items |-> iter(inner_tree(tree), StrictK, StrictV)]
    /\ UNCHANGED <<tree, cfgval, handles, pc, seen, ret, writes, db, opened>>

\* fn range_key_bytes(&self, range): self.inner_tree.range_key_bytes(range)
StrictCallRangeKeyBytes ==
    \E lo \in ByteBounds, hi \in ByteBounds :
        /\ res' = [op |-> "strict_range_key_bytes", lo |-> lo, hi |-> hi,
                   items |-> range_key_bytes(inner_tree(tree), StrictV, lo, hi)]
        /\ UNCHANGED <<tree, cfgval, handles, pc, seen, ret, writes, db, opened>>

\* fn range(&self, range): self.inner_tree.range(range)
StrictCallRange ==
    \E start \in Bounds, end \in Bounds :
        /\ res' = [op |-> "strict_range", start |-> start, end |-> end,
                   items |-> range(inner_tree(tree), StrictK, StrictV, start, end).items]
        /\ UNCHANGED <<tree, cfgval, handles, pc, seen, ret, writes, db, opened>>

\* fn clear(&self): self.inner_tree.clear()
StrictCallClear ==
    LET w == clear(inner_tree(tree))
    IN  /\ tree' = w.tree
        /\ res' = [op |-> "strict_clear", had |-> len(tree), ret |-> w.ret]
        /\ UNCHANGED <<cfgval, handles, pc, seen, ret, writes, db, opened>>

\* fn contains_key(&self, key): self.inner_tree.contains_key(key)
StrictCallContainsKey ==
    \E key \in {k \in KeyInputs : k.ty = StrictK} :
        /\ res' = [op |-> "strict_contains_key", key |-> key,
                   ret |-> contains_key(inner_tree(tree), key)]
        /\ UNCHANGED <<tree, cfgval, handles, pc, seen, ret, writes, db, opened>>

\* fn len(&self): self.inner_tree.len()
StrictCallLen ==
    /\ res' = [op |-> "strict_len", ret |-> len(inner_tree(tree))]
    /\ UNCHANGED <<tree, cfgval, handles, pc, seen, ret, writes, db, opened>>

\* fn remove(&self, key): self.inner_tree.remove(key)
StrictCallRemove ==
    \E key \in {k \in KeyInputs : k.ty = StrictK} :
        LET w == remove(inner_tree(tree), key, StrictV)
        IN  /\ tree' = w.tree
            /\ res' = [op |-> "strict_remove", key |-> key, ret |-> w.ret]
            /\ UNCHANGED <<cfgval, handles, pc, seen, ret, writes, db, opened>>

\* the strict handle and a relaxed handle (CallInsert) on one tree
NextStrict ==
    \/ CallInsert
    \/ StrictCallGet
    \/ StrictCallGetOrInit
    \/ StrictCallInsert
    \/ StrictCallFirst
    \/ StrictCallLast
    \/ StrictCallPopMax
    \/ StrictCallIter
    \/ StrictCallRangeKeyBytes
    \/ StrictCallRange
    \/ StrictCallClear
    \/ StrictCallContainsKey
    \/ StrictCallLen
    \/ StrictCallRemove

SpecStrict == Init /\ [][NextStrict]_vars

----------------------------------------------------------------------------
(* Calls with keys, values and bounds that the codec does not encode *)

\* a value whose Serialize impl bincode rejects (a sequence that does not
\* tell its length: EncodeError::SequenceMustHaveLength)
NoLength == T("seq_nolen", <<>>)

\* bincode::serde::encode_to_vec(x, BINCODE_CONFIG) as a Result
TryEncode(x) == IF x.ty = "seq_nolen" THEN Err("encode") ELSE Ok(Encode(x))

\* the calls below also count the calls they make on the store

\* get: encode_to_vec(key)?, then inner_tree.get
get_enc(t, key, V) ==
    IF ~TryEncode(key).ok THEN [tree |-> t, ret |-> Err("encode"), calls |-> 0]
    ELSE [tree |-> t, ret |-> get(t, key, V), calls |-> 1]

\* insert: encode_to_vec(key)?, encode_to_vec(value)?, then inner_tree.insert
insert_enc(t, key, value) ==
    IF ~TryEncode(key).ok THEN [tree |-> t, ret |-> Err("encode"), calls |-> 0]
    ELSE IF ~TryEncode(value).ok THEN [tree |-> t, ret |-> Err("encode"), calls |-> 0]
    ELSE [tree |-> insert(t, key, value).tree, ret |-> insert(t, key, value).ret,
          calls |-> 1]

\* remove: encode_to_vec(key)?, then inner_tree.remove
remove_enc(t, key, V) ==
    IF ~TryEncode(key).ok THEN [tree |-> t, ret |-> Err("encode"), calls |-> 0]
    ELSE [tree |-> remove(t, key, V).tree, ret |-> remove(t, key, V).ret, calls |-> 1]

\* contains_key: encode_to_vec(key)?, then inner_tree.contains_key
contains_key_enc(t, key) ==
    IF ~TryEncode(key).ok THEN [tree |-> t, ret |-> Err("encode"), calls |-> 0]
    ELSE [tree |-> t, ret |-> contains_key(t, key), calls |-> 1]

\* the endpoint of a bound, if it has one, encodes
BoundEncodes(b) == b.kind = "Unbounded" \/ TryEncode(b.x).ok

\* range that takes a bound it cannot encode as no bound
range_enc_partial(t, K, V, start, end) ==
    LET s == IF BoundEncodes(start) THEN start ELSE Unbounded
        e == IF BoundEncodes(end) THEN end ELSE Unbounded
    IN  [tree |-> t, ret |-> Ok(range(t, K, V, s, e).items), calls |-> 1]

\* range: the start bound encoded with ?, then the end bound, then
\* inner_tree.range; ret is Ok of the iterator run to its end
range_enc(t, K, V, start, end) ==
    IF ~BoundEncodes(start) THEN [tree |-> t, ret |-> Err("encode"), calls |-> 0]
    ELSE IF ~BoundEncodes(end) THEN [tree |-> t, ret |-> Err("encode"), calls |-> 0]
    ELSE [tree |-> t, ret |-> Ok(range(t, K, V, start, end).items), calls |-> 1]

\* the keys of a call: the two stored keys and a sequence without a length
EncKeys == RaceKeys \cup {NoLength}

EncGet ==
    \E key \in EncKeys :
        LET r == get_enc(tree, key, "u64")
        IN  /\ tree' = r.tree
            /\ res' = [op |-> "get", key |-> key, V |-> "u64",
                       ret |-> r.ret, calls |-> r.calls]
            /\ UNCHANGED <<cfgval, handles, pc, seen, ret, writes, db, opened>>

EncInsert ==
    \E key \in EncKeys, value \in {T("u64", <<7>>), T("u64", <<8>>), NoLength} :
        LET r == insert_enc(tree, key, value)
        IN  /\ tree' = r.tree
            /\ res' = [op |-> "insert", key |-> key, value |-> value,
                       ret |-> r.ret, calls |-> r.calls]
            /\ UNCHANGED <<cfgval, handles, pc, seen, ret, writes, db, opened>>

EncRemove ==
    \E key \in EncKeys :
        LET r == remove_enc(tree, key, "u64")
        IN  /\ tree' = r.tree
            /\ res' = [op |-> "remove", key |-> key, V |-> "u64",
                       ret |-> r.ret, calls |-> r.calls]
            /\ UNCHANGED <<cfgval, handles, pc, seen, ret, writes, db, opened>>

EncContainsKey ==
    \E key \in EncKeys :
        LET r == contains_key_enc(tree, key)
        IN  /\ tree' = r.tree
            /\ res' = [op |-> "contains_key", key |-> key,
                       ret |-> r.ret, calls |-> r.calls]
            /\ UNCHANGED <<cfgval, handles, pc, seen, ret, writes, db, opened>>

EncRange ==
    \E start, end \in {Unbounded} \cup {Included(k) : k \in EncKeys}
                                  \cup {Excluded(k) : k \in EncKeys} :
        LET r == range_enc(tree, "u64", "u64", start, end)
        IN  /\ tree' = r.tree
            /\ res' = [op |-> "range", start |-> start, end |-> end,
                       ret |-> r.ret, calls |-> r.calls]
            /\ UNCHANGED <<cfgval, handles, pc, seen, ret, writes, db, opened>>

NextEnc ==
    \/ EncGet
    \/ EncInsert
    \/ EncRemove
    \/ EncContainsKey
    \/ EncRange

SpecEnc == Init /\ [][NextEnc]_vars

----------------------------------------------------------------------------
(* The calls that write and decode what they took *)

NextMut ==
    \/ CallInsert
    \/ CallRemove
    \/ CallPopMax

SpecMut == Init /\ [][NextMut]_vars

----------------------------------------------------------------------------
(* Opens of one store by several callers, step by step, and the trees      *)
(* opened through the handles                                               *)

\* the store as the first caller finds it: the reserved key absent, or
\* holding what another user of the sled db left there
InitAgree ==
    /\ cfgval \in {None} \cup {Some(Encode(m)) : m \in MarkerInputs}
    /\ tree = EmptyTree
    /\ res = [op |-> "new"]
    /\ handles = <<>>
    /\ pc = [p \in Callers |-> Idle]
    /\ seen = [p \in Callers |-> Ok(None)]
    /\ ret = [p \in Callers |-> Ok(None)]
    /\ writes = <<>>
    /\ db = <<>>
    /\ opened = <<>>

\* sled_db.get(CONFIGUATION_TREE_KEY)?
NewGet(p) ==
    \E ser_mode \in SerialiserMode :
        /\ pc[p].at = "idle"
        /\ Len(handles) + Cardinality({q \in Callers : pc[q].at = "new"}) < MaxHandles
        /\ pc' = [pc EXCEPT ![p] = [at |-> "new", ser_mode |-> ser_mode]]
        /\ seen' = [seen EXCEPT ![p] = Ok(cfgval)]
        /\ UNCHANGED <<tree, res, cfgval, handles, ret, writes, db, opened>>

\* the match on what was read: the insert of the asked mode unless the
\* bytes read carry a known tag, then Ok(Self { .. })
NewFinish(p) ==
    /\ pc[p].at = "new"
    /\ LET found == seen[p].val
           r == new_from_config_or_else(found, pc[p].ser_mode)
       IN  /\ cfgval' = IF r.cfg = found THEN cfgval ELSE r.cfg
           /\ handles' = Append(handles, [ser_mode |-> r.ser_mode])
           /\ res' = [op |-> "new_from_config_or_else", asked |-> pc[p].ser_mode,
                      found |-> found, stale |-> found # cfgval,
                      ret |-> Ok(r.ser_mode)]
    /\ pc' = [pc EXCEPT ![p] = Idle]
    /\ UNCHANGED <<tree, seen, ret, writes, db, opened>>

NextAgree ==
    \/ \E p \in Callers : NewGet(p)
    \/ \E p \in Callers : NewFinish(p)
    \/ CallOpenTree

SpecAgree == InitAgree /\ [][NextAgree]_vars

----------------------------------------------------------------------------
(* Properties of the single calls *)

\* the step writes or removes the entry stored under the encoding of k
Touches(k) ==
    \/ res'.op \in {"insert", "remove"} /\ Encode(res'.key) = Encode(k)
    \/ res'.op = "pop_max" /\ sled_last(tree) # None /\ sled_last(tree)[1][1] = Encode(k)
    \/ res'.op = "clear"

\* C1: after insert(k, v) returns Ok, get(k) as v's type is Some(v), and stays
\* Some(v) over every step that is not an insert or remove on k's stored key,
\* a pop_max taking it, or a clear (a key is the byte string it is stored under).
C1_InsertThenGet ==
    [][ /\ (res'.op = "insert" /\ res'.ret.ok)
            => get(tree', res'.key, res'.value.ty) = Ok(Some(res'.value))
        /\ \/ tree' = tree       \* a step that leaves the tree leaves every get
           \/ \A k \in KeyInputs :
                 (Encode(k) \in DOMAIN tree /\ ~Touches(k)) =>
                     \A v \in ValInputs :
                         get(tree, k, v.ty) = Ok(Some(v))
                             => get(tree', k, v.ty) = Ok(Some(v)) ]_vars

\* a get returned Some(v) while the tree also holds another key
C1_Witness ==
    /\ res.op = "get"
    /\ res.ret = Ok(Some(T("u64", <<7>>)))
    /\ sled_len(tree) = 2

\* C2: insert(k, v2) on a key holding the encoding of v1, v1 of v2's type,
\* returns Some(v1); on an absent key it returns None; get(k) is then Some(v2).
C2_Overwrite ==
    [][ res'.op = "insert" =>
          LET old == sled_get(tree, Encode(res'.key))
          IN  /\ old = None => res'.ret = Ok(None)
              /\ \A v1 \in ValInputs :
                    (v1.ty = res'.value.ty /\ old = Some(Encode(v1)))
                        => res'.ret = Ok(Some(v1))
              /\ get(tree', res'.key, res'.value.ty) = Ok(Some(res'.value)) ]_vars

\* an insert of u64 8 returned the u64 7 stored before
C2_Witness ==
    /\ res.op = "insert"
    /\ res.value = T("u64", <<8>>)
    /\ res.ret = Ok(Some(T("u64", <<7>>)))
    /\ get(tree, res.key, "u64") = Ok(Some(T("u64", <<8>>)))

\* C6: get_or_init on an absent key calls init once, stores its result under
\* the key and returns it; on a present key it calls nothing, writes nothing
\* and returns the stored value decoded as init's type.
C6_GetOrInit ==
    [][ res'.op = "get_or_init" =>
          LET kb == Encode(res'.key)
          IN  /\ kb \notin DOMAIN tree =>
                    /\ res'.calls = 1
                    /\ tree' = TreeWith(tree, kb, Encode(res'.init))
                    /\ res'.ret = Ok(Some(res'.init))
              /\ kb \in DOMAIN tree =>
                    /\ res'.calls = 0
                    /\ tree' = tree
                    /\ res'.ret = DecodeOld(res'.init.ty, Some(tree[kb])) ]_vars

\* get_or_init found u64 7 under the key and returned it instead of init
C6_Witness ==
    /\ res.op = "get_or_init"
    /\ res.calls = 0
    /\ res.init = T("u64", <<8>>)
    /\ res.ret = Ok(Some(T("u64", <<7>>)))

\* get_or_init found nothing, called init and stored it
C6_WitnessAbsent ==
    /\ res.op = "get_or_init"
    /\ res.calls = 1
    /\ res.ret = Ok(Some(res.init))
    /\ sled_get(tree, Encode(res.key)) = Some(Encode(res.init))

\* the smallest and the largest stored key of a tree that is not empty
MinKey(t) == CHOOSE kb \in DOMAIN t : \A o \in DOMAIN t : o = kb \/ BytesLess(kb, o)
MaxKey(t) == CHOOSE kb \in DOMAIN t : \A o \in DOMAIN t : o = kb \/ BytesLess(o, kb)

\* what a call for the single entry under kb returns: the entry as (K, V), or
\* a decode error when its key or its value is not of the requested type
TypedEntry(K, V, t, kb) ==
    IF Decode(K, kb).ok /\ Decode(V, t[kb]).ok
    THEN Ok(Some(<<Decode(K, kb).val, Decode(V, t[kb]).val>>))
    ELSE Err("decode")

\* what a call for the value under kb returns
TypedValue(V, t, kb) ==
    IF Decode(V, t[kb]).ok THEN Ok(Some(Decode(V, t[kb]).val)) ELSE Err("decode")

\* C12: on a tree that is not empty first returns the entry with the smallest
\* stored key and last the entry with the largest, as the requested types; on
\* an empty tree both return Ok(None); neither changes the tree.
C12_FirstLast ==
    [][ /\ res'.op = "first" =>
              /\ tree' = tree
              /\ DOMAIN tree = {} => res'.ret = Ok(None)
              /\ DOMAIN tree # {} =>
                    res'.ret = TypedEntry(res'.K, res'.V, tree, MinKey(tree))
        /\ res'.op = "last" =>
              /\ tree' = tree
              /\ DOMAIN tree = {} => res'.ret = Ok(None)
              /\ DOMAIN tree # {} =>
                    res'.ret = TypedEntry(res'.K, res'.V, tree, MaxKey(tree)) ]_vars

\* first returned the entry of key 1 from a tree that also holds a larger key
C12_Witness ==
    /\ res.op = "first"
    /\ sled_len(tree) = 2
    /\ res.ret.ok
    /\ res.ret.val # None
    /\ res.ret.val[1][1] = T("u64", <<1>>)

\* C13: pop_max on a tree that is not empty returns the entry with the largest
\* stored key and removes that entry and no other: len drops by one and
\* contains_key of the popped key is false; on an empty tree it returns
\* Ok(None) and changes nothing.
C13_PopMax ==
    [][ res'.op = "pop_max" =>
          /\ DOMAIN tree = {} => (res'.ret = Ok(None) /\ tree' = tree)
          /\ DOMAIN tree # {} =>
                LET m == MaxKey(tree)
                IN  /\ res'.ret = TypedEntry(res'.K, res'.V, tree, m)
                    /\ len(tree') = len(tree) - 1
                    /\ \A k \in KeyInputs :
                          Encode(k) = m => contains_key(tree', k) = Ok(FALSE)
                    /\ DOMAIN tree' = DOMAIN tree \ {m}
                    /\ \A kb \in DOMAIN tree' : tree'[kb] = tree[kb] ]_vars

\* pop_max returned the entry of key 300 and left one entry behind
C13_Witness ==
    /\ res.op = "pop_max"
    /\ res.ret.ok
    /\ res.ret.val # None
    /\ res.ret.val[1][1] = T("u64", <<300>>)
    /\ sled_len(tree) = 1
    /\ ~sled_contains_key(tree, <<251, 1, 44>>)

\* C14: after clear, len is 0 and iter is empty for every requested key and
\* value type, whatever the entries were written as; a second clear leaves
\* the tree as it is.
C14_Clear ==
    [][ res'.op = "clear" =>
          /\ res'.ret.ok
          /\ len(tree') = 0
          /\ \A K \in KTypes, V \in VTypes :
                iter(tree', K, V) = <<>> /\ iter_rev(tree', K, V) = <<>>
          /\ clear(tree').tree = tree' ]_vars

\* a clear of a tree of two entries has run and the tree is empty
C14_Witness ==
    /\ res.op = "clear"
    /\ res.had = 2
    /\ res.ret.ok
    /\ tree = EmptyTree

\* C15: remove on a present key returns the value stored under it, as the
\* requested type, and deletes that entry and no other: get is then None,
\* contains_key false, and the remaining entries keep their values and their
\* order; remove on an absent key returns Ok(None) and changes nothing.
C15_Remove ==
    [][ res'.op = "remove" =>
          LET kb == Encode(res'.key)
          IN  /\ kb \notin DOMAIN tree => (res'.ret = Ok(None) /\ tree' = tree)
              /\ kb \in DOMAIN tree =>
                    /\ res'.ret = TypedValue(res'.V, tree, kb)
                    /\ get(tree', res'.key, res'.V) = Ok(None)
                    /\ contains_key(tree', res'.key) = Ok(FALSE)
                    /\ DOMAIN tree' = DOMAIN tree \ {kb}
                    /\ \A o \in DOMAIN tree' : tree'[o] = tree[o]
                    /\ sled_iter(tree')
                          = SelectSeq(sled_iter(tree), LAMBDA e : e[1] # kb) ]_vars

\* remove returned a stored value and left another entry behind
C15_Witness ==
    /\ res.op = "remove"
    /\ res.ret.ok
    /\ res.ret.val # None
    /\ sled_len(tree) = 1
    /\ ~sled_contains_key(tree, Encode(res.key))

\* C17: a call for one item returns a decode error when the stored bytes are
\* not of the requested type (get: the value; insert: the previous value, read
\* as the new value's type; first, last, pop_max: the key or the value), and
\* Ok(None) when the key is absent or the tree empty.
C17_TypeMismatch ==
    [][ /\ res'.op \in {"get", "insert"} =>
              LET kb == Encode(res'.key)
                  V == IF res'.op = "get" THEN res'.V ELSE res'.value.ty
              IN  /\ kb \notin DOMAIN tree => res'.ret = Ok(None)
                  /\ (kb \in DOMAIN tree /\ ~Decode(V, tree[kb]).ok)
                        => res'.ret = Err("decode")
                  /\ (kb \in DOMAIN tree /\ Decode(V, tree[kb]).ok)
                        => res'.ret = Ok(Some(Decode(V, tree[kb]).val))
        /\ res'.op \in {"first", "last", "pop_max"} =>
              /\ DOMAIN tree = {} => res'.ret = Ok(None)
              /\ DOMAIN tree # {} =>
                    LET kb == IF res'.op = "first" THEN MinKey(tree) ELSE MaxKey(tree)
                    IN  /\ (~Decode(res'.K, kb).ok \/ ~Decode(res'.V, tree[kb]).ok)
                              => res'.ret = Err("decode")
                        /\ res'.ret.ok => res'.ret.val # None ]_vars

\* get found bytes that are not of the requested type and returned an error
C17_Witness ==
    /\ res.op = "get"
    /\ sled_contains_key(tree, Encode(res.key))
    /\ ~Decode(res.V, tree[Encode(res.key)]).ok
    /\ res.ret = Err("decode")

----------------------------------------------------------------------------
(* Properties of the scans *)

\* the entry stored under kb decodes as (K, V)
Decodable(K, V, kb) == Decode(K, kb).ok /\ Decode(V, tree[kb]).ok
DecodedEntry(K, V, kb) == <<Decode(K, kb).val, Decode(V, tree[kb]).val>>

\* the positions of the raw sequence es that decode as (K, V)
GoodPositions(K, V, es) ==
    {i \in 1..Len(es) : Decode(K, es[i][1]).ok /\ Decode(V, es[i][2]).ok}

\* items is es with the undecodable entries left out and the others decoded
IsDecodedSubsequence(K, V, es, items) ==
    LET good == GoodPositions(K, V, es)
        pos(j) == CHOOSE i \in good : Cardinality({h \in good : h <= i}) = j
    IN  /\ Len(items) = Cardinality(good)
        /\ \A j \in 1..Len(items) :
              items[j] = <<Decode(K, es[pos(j)][1]).val, Decode(V, es[pos(j)][2]).val>>

\* C8: iter never reports an error and yields exactly the stored entries whose
\* key decodes as K and whose value decodes as V, in their stored order.
C8_IterSkips ==
    res.op = "iter" =>
        IsDecodedSubsequence(res.K, res.V, sled_iter(tree), res.items)

\* iter over two entries of which one does not decode as the requested types
C8_Witness ==
    /\ res.op = "iter"
    /\ sled_len(tree) = 2
    /\ Len(res.items) = 1

\* items lists the decodable entries with stored key in S, smallest key first
IsAscendingOver(K, V, S, items) ==
    LET good == {kb \in S : Decodable(K, V, kb)}
        rank(kb) == 1 + Cardinality({o \in good : BytesLess(o, kb)})
    IN  /\ Len(items) = Cardinality(good)
        /\ \A kb \in good : items[rank(kb)] = DecodedEntry(K, V, kb)

\* C9: iter yields every decodable entry once, in ascending byte order of the
\* stored keys (so from the smallest key on every call); iter().rev() yields
\* the same entries in the reverse order.
C9_IterOrder ==
    /\ res.op = "iter" => IsAscendingOver(res.K, res.V, DOMAIN tree, res.items)
    /\ res.op = "iter_rev" =>
          LET fwd == iter(tree, res.K, res.V)
          IN  /\ Len(res.items) = Len(fwd)
              /\ \A j \in 1..Len(fwd) : res.items[j] = fwd[Len(fwd) + 1 - j]

\* a reverse iteration over two decodable entries
C9_Witness ==
    /\ res.op = "iter_rev"
    /\ Len(res.items) = 2
    /\ res.items[1] # res.items[2]

\* kb lies inside the byte range <<lo, hi>>
InByteRange(kb, lo, hi) ==
    /\ lo.kind = "Included" => (kb = lo.x \/ BytesLess(lo.x, kb))
    /\ lo.kind = "Excluded" => BytesLess(lo.x, kb)
    /\ hi.kind = "Included" => (kb = hi.x \/ BytesLess(kb, hi.x))
    /\ hi.kind = "Excluded" => BytesLess(kb, hi.x)

\* the unsigned integer n lies inside the typed range <<start, end>>
InTypedRange(n, start, end) ==
    /\ start.kind = "Included" => start.x.v[1] <= n
    /\ start.kind = "Excluded" => start.x.v[1] < n
    /\ end.kind = "Included" => n <= end.x.v[1]
    /\ end.kind = "Excluded" => n < end.x.v[1]

\* every stored key is the encoding of an unsigned integer
UnsignedKeysOnly ==
    \A kb \in DOMAIN tree :
        Decode("u64", kb).ok /\ Encode(Decode("u64", kb).val) = kb

\* byte bound b has the shape of typed bound tb and carries its encoding
SameShape(b, tb) ==
    /\ b.kind = tb.kind
    /\ tb.kind = "Unbounded" => b = Unbounded
    /\ tb.kind # "Unbounded" => b.x = Encode(tb.x)

\* C10: range hands sled a byte range of the same shape as the typed range with
\* the present endpoints encoded, and yields the decodable entries whose stored
\* key lies in that byte range, in ascending byte order; on a tree of unsigned
\* integer keys these are the stored keys inside the typed range.
C10_Range ==
    res.op = "range" =>
        /\ SameShape(res.query[1], res.start)
        /\ SameShape(res.query[2], res.end)
        /\ IsAscendingOver(res.K, res.V,
              {kb \in DOMAIN tree : InByteRange(kb, res.query[1], res.query[2])},
              res.items)
        /\ (res.K = "u64" /\ UnsignedKeysOnly) =>
              {res.items[j][1].v[1] : j \in 1..Len(res.items)}
                = {Decode("u64", kb).val.v[1] : kb \in
                     {o \in DOMAIN tree :
                        /\ Decode(res.V, tree[o]).ok
                        /\ InTypedRange(Decode("u64", o).val.v[1], res.start, res.end)}}

\* range(..2) over the keys 1 and 2 yielded key 1 only
C10_Witness ==
    /\ res.op = "range"
    /\ res.K = "u64"
    /\ res.start = Unbounded
    /\ res.end = Excluded(T("u64", <<2>>))
    /\ DOMAIN tree = {<<1>>, <<2>>}
    /\ Len(res.items) = 1
    /\ res.items[1][1] = T("u64", <<1>>)

----------------------------------------------------------------------------
(* Properties of the serialiser mode *)

\* the reserved key holds a value whose first byte is the tag of a mode
IsConfigured(cfg) ==
    cfg # None /\ cfg[1] # <<>> /\ \E m \in SerialiserMode : as_ref(m)[1] = cfg[1][1]
PersistedMode(cfg) == CHOOSE m \in SerialiserMode : as_ref(m)[1] = cfg[1][1]

\* the step is an open of the store
IsOpen == res'.op = "new_from_config_or_else" /\ Len(handles') = Len(handles) + 1
NewHandle == handles'[Len(handles')]

\* C3: an open of a store whose reserved key holds the tag of mode m returns a
\* handle of mode m, whatever mode is asked for, and leaves m persisted.
C3_PersistedModeWins ==
    [][ (IsOpen /\ IsConfigured(cfgval)) =>
            /\ NewHandle.ser_mode = PersistedMode(cfgval)
            /\ res'.ret = Ok(PersistedMode(cfgval))
            /\ cfgval' = cfgval ]_vars

\* a second open of a store whose marker carries the tag and a further byte
C3_Witness ==
    /\ res.op = "new_from_config_or_else"
    /\ res.found = Some(<<0, 9>>)
    /\ cfgval = Some(<<0, 9>>)
    /\ Len(handles) >= 2
    /\ handles[Len(handles)].ser_mode = "BINCODE"

\* C4 as claimed: an open never changes the bytes under a reserved key that is
\* present, whatever the bytes are.
C4_NeverRewritten ==
    [][ (IsOpen /\ cfgval # None) => cfgval' = cfgval ]_vars

\* C4 as amended: an open changes the bytes under the reserved key only when
\* the key is absent or holds no recognised tag; it then writes the tag of the
\* requested mode, and an open of the store it leaves changes nothing.
C4_WrittenOnceRecognised ==
    [][ IsOpen =>
          /\ cfgval' # cfgval =>
                /\ ~IsConfigured(cfgval)
                /\ cfgval' = Some(as_ref(res'.asked))
          /\ new_from_config_or_else(cfgval', res'.asked).cfg = cfgval' ]_vars

\* an open found an unreadable marker and replaced it
C4_Witness ==
    /\ res.op = "new_from_config_or_else"
    /\ res.found = Some(<<7>>)
    /\ cfgval = Some(<<0>>)

\* C5: an open that finds a recognised tag adopts its mode and writes nothing;
\* an open that finds the key absent, empty or with another first byte writes
\* the one tag byte of the requested mode and adopts the requested mode.
C5_OpenTransition ==
    [][ IsOpen =>
          LET recognised == cfgval # None /\ Len(cfgval[1]) >= 1 /\ cfgval[1][1] = 0
          IN  /\ recognised =>
                    /\ cfgval' = cfgval
                    /\ NewHandle.ser_mode = "BINCODE"
              /\ ~recognised =>
                    /\ cfgval' # None
                    /\ Len(cfgval'[1]) = 1
                    /\ cfgval'[1] = as_ref(res'.asked)
                    /\ NewHandle.ser_mode = res'.asked ]_vars

\* an open found an empty value under the reserved key and wrote the tag
C5_Witness ==
    /\ res.op = "new_from_config_or_else"
    /\ res.found = Some(<<>>)
    /\ cfgval = Some(<<0>>)
    /\ handles[Len(handles)].ser_mode = res.asked

\* an open of a fresh store wrote the tag
C5_WitnessAbsent ==
    /\ res.op = "new_from_config_or_else"
    /\ res.found = None
    /\ cfgval = Some(<<0>>)

----------------------------------------------------------------------------
(* Properties of concurrent get_or_init *)

\* the caller whose insert reached the store last among those on key bytes kb
LastWriter(kb) ==
    LET idx == {i \in 1..Len(writes) : Encode(pc[writes[i]].key) = kb}
    IN  writes[CHOOSE i \in idx : \A h \in idx : h <= i]

\* p's insert reached the store, and q's insert on the same key bytes before it
Wrote(p) == \E i \in 1..Len(writes) : writes[i] = p
WroteBefore(q, p) ==
    \E i, j \in 1..Len(writes) :
        /\ i < j /\ writes[i] = q /\ writes[j] = p
        /\ Encode(pc[q].key) = Encode(pc[p].key)

\* C7: get_or_init is not atomic. Every caller that saw None inserts, also
\* when another caller saw None for the same key and inserts too; it returns
\* its own init value (or a decode error, when the bytes another caller wrote
\* first are not of its type), and the store keeps the value of the insert
\* that came last.
C7_LastWriterWins ==
    /\ \A p \in Callers :
          (pc[p].at = "done" /\ seen[p] = Ok(None)) =>
              /\ Wrote(p)
              /\ \/ ret[p] = Ok(Some(pc[p].init))
                 \/ /\ ~ret[p].ok
                    /\ \E q \in Callers :
                          /\ WroteBefore(q, p)
                          /\ ~Decode(pc[p].init.ty, Encode(pc[q].init)).ok
    /\ \A kb \in DOMAIN tree :
          tree[kb] = Encode(pc[LastWriter(kb)].init)

\* two callers saw None for one key, inserted different values, each returned
\* its own, and the store holds the value of the second insert
C7_Witness ==
    \E p, q \in Callers :
        /\ p # q
        /\ pc[p].at = "done" /\ pc[q].at = "done"
        /\ pc[p].key = pc[q].key
        /\ pc[p].init # pc[q].init
        /\ seen[p] = Ok(None) /\ seen[q] = Ok(None)
        /\ ret[p] = Ok(Some(pc[p].init))
        /\ ret[q] = Ok(Some(pc[q].init))
        /\ writes = <<p, q>>
        /\ tree[Encode(pc[q].key)] = Encode(pc[q].init)

----------------------------------------------------------------------------
(* Properties of the scans by raw key bytes *)

\* items lists <<stored key, decoded value>> for the keys of S whose value
\* decodes as V, smallest key first
IsAscendingRawOver(V, S, items) ==
    LET good == {kb \in S : Decode(V, tree[kb]).ok}
        rank(kb) == 1 + Cardinality({o \in good : BytesLess(o, kb)})
    IN  /\ Len(items) = Cardinality(good)
        /\ \A kb \in good : items[rank(kb)] = <<kb, Decode(V, tree[kb]).val>>

\* the stored keys of items, in order
RawKeys(items) == [j \in 1..Len(items) |-> items[j][1]]

\* C11: range_key_bytes yields, in ascending byte order, the entries whose
\* stored key lies within the byte bounds and whose value decodes, each with
\* its key as the stored bytes; with keys 1 and 2 stored and decodable values,
\* ..2 yields key 1, 1.. yields keys 1 then 2, 2.. yields key 2.
C11_RangeKeyBytes ==
    res.op = "range_key_bytes" =>
        /\ IsAscendingRawOver(res.V,
              {kb \in DOMAIN tree : InByteRange(kb, res.lo, res.hi)}, res.items)
        /\ (/\ DOMAIN tree = {<<1>>, <<2>>}
            /\ \A kb \in DOMAIN tree : Decode(res.V, tree[kb]).ok) =>
              /\ (res.lo = Unbounded /\ res.hi = Excluded(<<2>>))
                    => RawKeys(res.items) = << <<1>> >>
              /\ (res.lo = Included(<<1>>) /\ res.hi = Unbounded)
                    => RawKeys(res.items) = << <<1>>, <<2>> >>
              /\ (res.lo = Included(<<2>>) /\ res.hi = Unbounded)
                    => RawKeys(res.items) = << <<2>> >>

\* range_key_bytes(..2) over the keys 1 and 2 yielded the entry of key 1
C11_Witness ==
    /\ res.op = "range_key_bytes"
    /\ DOMAIN tree = {<<1>>, <<2>>}
    /\ res.lo = Unbounded
    /\ res.hi = Excluded(<<2>>)
    /\ Len(res.items) = 1
    /\ res.items[1][1] = <<1>>


----------------------------------------------------------------------------
(* Properties of the named trees *)

\* the handles that were opened under the same name as handle i
SameName(i) == {j \in 1..Len(opened) : opened[j].asked = opened[i].asked}

\* what the write recorded in r makes of the contents t
Written(r, t) ==
    CASE r.op = "insert"  -> insert(t, r.key, r.value).tree
      [] r.op = "remove"  -> remove(t, r.key, r.V).tree
      [] r.op = "pop_max" -> pop_max(t, r.K, r.V).tree
      [] r.op = "clear"   -> clear(t).tree
      [] OTHER            -> t

\* C16: tree handles opened under one name share their data, so that a write
\* (insert, remove, clear, pop_max) through one of them is what every read
\* through the others then sees, while handles opened under another name see
\* nothing of it; opening a name creates the tree empty if the db has none
\* and leaves the contents of every existing tree as they were.
C16_OpenTree ==
    [][ /\ res'.op \in {"insert", "remove", "pop_max", "clear"} /\ "handle" \in DOMAIN res'
            => \A j \in 1..Len(opened) :
                  /\ opened'[j] = opened[j]
                  /\ TreeOf(db', opened[j]) =
                        IF j \in SameName(res'.handle)
                        THEN Written(res', TreeOf(db, opened[j]))
                        ELSE TreeOf(db, opened[j])
        /\ res'.op = "get" /\ "handle" \in DOMAIN res'
            => /\ db' = db
               /\ \A j \in SameName(res'.handle) :
                     res'.ret = get(TreeOf(db, opened[j]), res'.key, res'.V)
        /\ res'.op = "open_tree"
            => /\ res'.ret.ok
               /\ Len(opened') = Len(opened) + 1
               /\ \A n \in DOMAIN db : n \in DOMAIN db' /\ db'[n] = db[n]
               /\ \A j \in 1..Len(opened) :
                     /\ opened'[j] = opened[j]
                     /\ TreeOf(db', opened[j]) = TreeOf(db, opened[j])
                     /\ opened[j].asked = res'.name
                           => TreeOf(db', opened'[Len(opened')]) = TreeOf(db, opened[j])
               /\ (\A j \in 1..Len(opened) : opened[j].asked # res'.name)
                     /\ res'.name \notin DOMAIN db
                     => TreeOf(db', opened'[Len(opened')]) = EmptyTree
      ]_vars

\* reached: three handles, two of one name and one of another; an insert
\* through the first has just been made, the second holds it, the third
\* holds something else
C16_Witness ==
    /\ Len(opened) = 3
    /\ opened[1].asked = opened[2].asked
    /\ opened[3].asked # opened[1].asked
    /\ res.op = "insert" /\ "handle" \in DOMAIN res /\ res.handle = 1
    /\ get(TreeOf(db, opened[2]), res.key, res.value.ty) = Ok(Some(res.value))
    /\ get(TreeOf(db, opened[3]), res.key, res.value.ty) # Ok(Some(res.value))
    /\ TreeOf(db, opened[3]) # EmptyTree


----------------------------------------------------------------------------
(* Properties of the calls on a failing store *)

\* the single calls and the scans of SpecIo
SingleOps == {"get", "insert", "remove", "contains_key", "first", "last",
              "pop_max", "clear"}
ScanOps == {"iter", "range", "range_key_bytes"}

\* C18: whenever the store reports an error during a call of this layer, the
\* caller receives a store error: a single call returns it, a scan hands it
\* on where the failure happened, so that no failure ends as a normal result
\* or as a sequence that is silently shorter.
C18_StoreErrorsPropagated ==
    "failed" \in DOMAIN res /\ res.failed
        => /\ res.op \in SingleOps => res.ret = SledError
           /\ res.op \in ScanOps => res.errors # <<>>

\* the part of C18 that the single calls meet: a failed store call is the
\* call's store error and changes nothing
C18_SingleCallsPropagate ==
    [][ "failed" \in DOMAIN res' /\ res'.failed /\ res'.op \in SingleOps
            => res'.ret = SledError /\ tree' = tree ]_vars

\* reached: a scan over two decodable entries whose first read failed came
\* back with one item and no error
C18_ScanSwallows ==
    /\ res.op = "iter" /\ "failed" \in DOMAIN res
    /\ res.faults = {1} /\ sled_len(tree) = 2
    /\ Len(res.items) = 1 /\ res.errors = <<>>
    /\ Len(iter(tree, res.K, res.V)) = 2


----------------------------------------------------------------------------
(* Properties of an open on a failing store *)

\* the open has to write the reserved key: it is absent or unreadable
MustWrite(cfg) == ~(cfg # None /\ cfg[1] # <<>> /\ cfg[1][1] = 0)

\* C19: when the read of the reserved key fails, or the write that the open
\* has to make fails, new_from_config_or_else returns the store's error and
\* no handle; a handle is returned only when every call on the reserved key
\* succeeded.
C19_OpenFailurePropagates ==
    [][ res'.op = "new_from_config_or_else" /\ "read" \in DOMAIN res'
          => LET failed == \/ res'.read = "fails"
                           \/ MustWrite(cfgval) /\ res'.write = "fails"
             IN  /\ failed => res'.ret = SledError /\ handles' = handles
                 /\ ~failed => /\ res'.ret.ok
                               /\ handles' = Append(handles, [ser_mode |-> res'.ret.val])
      ]_vars

\* reached: an open that found an unreadable marker, read it, failed to
\* write the tag, and returned the store's error with no handle made
C19_Witness ==
    /\ res.op = "new_from_config_or_else" /\ "read" \in DOMAIN res
    /\ res.found = Some(<<7>>)
    /\ res.read = "ok" /\ res.write = "fails"
    /\ res.ret = SledError
    /\ handles = <<>>


----------------------------------------------------------------------------
(* Properties of the codec *)

\* C20: for unsigned integers a < b of one type the encoding of a is strictly
\* below the encoding of b in byte order, so that on a tree holding both as
\* keys first is a, last and pop_max are b, and the range from a up to but
\* not including b is a alone.
C20_OrderPreserving ==
    /\ res.op = "encode" /\ res.a.ty \in {"u8", "u64"} /\ res.a.v[1] < res.b.v[1]
          => BytesLess(res.ea, res.eb)
    /\ res.op = "ends" /\ res.a.ty \in {"u8", "u64"} /\ res.a.v[1] < res.b.v[1]
          => /\ res.first = Ok(Some(<<res.a, T("unit", <<>>)>>))
             /\ res.last = Ok(Some(<<res.b, T("unit", <<>>)>>))
             /\ res.pop_max = Ok(Some(<<res.b, T("unit", <<>>)>>))
             /\ res.range = << <<res.a, T("unit", <<>>)>> >>

\* reached: 300 and 512, whose low bytes are in the other order, and 250 and
\* 251, where the encoding goes from one byte to three
C20_Witness ==
    /\ res.op = "ends"
    /\ res.a = T("u64", <<300>>) /\ res.b = T("u64", <<512>>)
    /\ Encode(res.a) = <<251, 1, 44>> /\ Encode(res.b) = <<251, 2, 0>>
    /\ sled_iter(tree)[1][1] = <<251, 1, 44>>

\* reached: the step from the one-byte form to the three-byte form
C20_WitnessThreshold ==
    /\ res.op = "encode"
    /\ res.a = T("u64", <<250>>) /\ res.b = T("u64", <<251>>)
    /\ res.ea = <<250>> /\ res.eb = <<251, 0, 251>>


----------------------------------------------------------------------------
(* Properties of the codec on every ordered key type *)

\* C21: for keys a < b of one ordered type (unsigned or signed integer, fixed
\* array, byte vector) the encoding of a is below the encoding of b in byte
\* order, so that on a tree holding both first is a, last and pop_max are b
\* and the range from a up to but not including b is a alone.
C21_TypedOrderPreserved ==
    /\ res.op = "encode" /\ TypedLess(res.a, res.b)
          => BytesLess(res.ea, res.eb)
    /\ res.op = "ends" /\ TypedLess(res.a, res.b)
          => /\ res.first = Ok(Some(<<res.a, T("unit", <<>>)>>))
             /\ res.last = Ok(Some(<<res.b, T("unit", <<>>)>>))
             /\ res.pop_max = Ok(Some(<<res.b, T("unit", <<>>)>>))
             /\ res.range = << <<res.a, T("unit", <<>>)>> >>

\* the part of C21 that holds: unsigned integers and fixed arrays
C21_UnsignedAndArraysPreserved ==
    res.op = "encode" /\ res.a.ty \in {"u64", "arr2"} /\ TypedLess(res.a, res.b)
        => BytesLess(res.ea, res.eb)

\* reached: -2 < 1, encoded as <<3>> and <<2>>; the tree's first key is 1
C21_SignedOutOfOrder ==
    /\ res.op = "ends"
    /\ res.a = T("i64", <<-2>>) /\ res.b = T("i64", <<1>>)
    /\ Encode(res.a) = <<3>> /\ Encode(res.b) = <<2>>
    /\ res.first = Ok(Some(<<res.b, T("unit", <<>>)>>))

\* reached: the vector <<0, 0>> is below <<255>>, its encoding <<2, 0, 0>>
\* is above <<1, 255>>
C21_VecOutOfOrder ==
    /\ res.op = "encode"
    /\ res.a = T("vec", <<0, 0>>) /\ res.b = T("vec", <<255>>)
    /\ res.ea = <<2, 0, 0>> /\ res.eb = <<1, 255>>


----------------------------------------------------------------------------
(* Properties of the round trip *)

\* C22: decoding the encoding of a value as its own type gives the value;
\* so a value written by insert comes back equal from get, first, last, iter
\* and range called with the types it was written with.
C22_RoundTrip ==
    /\ res.op = "round_trip"
          => res.key_back = Ok(res.key) /\ res.value_back = Ok(res.value)
    /\ res.op = "read"
          => /\ res.get = Ok(Some(res.value))
             /\ res.first = Ok(Some(<<res.key, res.value>>))
             /\ res.last = Ok(Some(<<res.key, res.value>>))
             /\ res.iter = << <<res.key, res.value>> >>
             /\ res.range = << <<res.key, res.value>> >>

\* reached: a signed value of five encoded bytes under a vector key, read back
C22_Witness ==
    /\ res.op = "read"
    /\ res.key = T("vec", <<97, 98>>) /\ res.value = T("i64", <<-65536>>)
    /\ tree = (<<2, 97, 98>> :> <<252, 0, 1, 255, 255>>)
    /\ res.get = Ok(Some(T("i64", <<-65536>>)))


----------------------------------------------------------------------------
(* Properties of the strict tree *)

\* C23: every call on the strict handle returns what the relaxed call of the
\* same name returns with K and V on the same tree, and leaves the tree as
\* that call leaves it; the relaxed handle goes on writing keys and values of
\* any type, and the strict calls answer from the bytes it wrote.
C23_StrictIsRelaxed ==
    [][ /\ res'.op = "strict_get"
            => res'.ret = get(tree, res'.key, StrictV) /\ tree' = tree
        /\ res'.op = "strict_get_or_init"
            => /\ res'.ret = get_or_init(tree, res'.key, res'.init).ret
               /\ tree' = get_or_init(tree, res'.key, res'.init).tree
        /\ res'.op = "strict_insert"
            => /\ res'.ret = insert(tree, res'.key, res'.value).ret
               /\ tree' = insert(tree, res'.key, res'.value).tree
        /\ res'.op = "strict_first"
            => res'.ret = first(tree, StrictK, StrictV) /\ tree' = tree
        /\ res'.op = "strict_last"
            => res'.ret = last(tree, StrictK, StrictV) /\ tree' = tree
        /\ res'.op = "strict_pop_max"
            => /\ res'.ret = pop_max(tree, StrictK, StrictV).ret
               /\ tree' = pop_max(tree, StrictK, StrictV).tree
        /\ res'.op = "strict_iter"
            => res'.items = iter(tree, StrictK, StrictV) /\ tree' = tree
        /\ res'.op = "strict_range_key_bytes"
            => /\ res'.items = range_key_bytes(tree, StrictV, res'.lo, res'.hi)
               /\ tree' = tree
        /\ res'.op = "strict_range"
            => /\ res'.items = range(tree, StrictK, StrictV, res'.start, res'.end).items
               /\ tree' = tree
        /\ res'.op = "strict_clear"
            => res'.ret = clear(tree).ret /\ tree' = clear(tree).tree
        /\ res'.op = "strict_contains_key"
            => res'.ret = contains_key(tree, res'.key) /\ tree' = tree
        /\ res'.op = "strict_len"
            => res'.ret = len(tree) /\ tree' = tree
        /\ res'.op = "strict_remove"
            => /\ res'.ret = remove(tree, res'.key, StrictV).ret
               /\ tree' = remove(tree, res'.key, StrictV).tree
        /\ res'.op = "insert"
            => tree' = insert(tree, res'.key, res'.value).tree
      ]_vars

\* reached: the relaxed handle stored bytes under the key 1 that are no u64
\* (the u8 251), and the strict insert of 7 under 1 wrote over them and
\* returned the decode error
C23_Witness ==
    /\ res.op = "strict_insert"
    /\ res.key = T("u64", <<1>>) /\ res.value = T("u64", <<7>>)
    /\ res.ret = Err("decode")
    /\ tree[<<1>>] = <<7>>
    /\ sled_len(tree) = 2

\* reached: the strict iter leaves out an entry the relaxed handle wrote
C23_WitnessSkips ==
    /\ res.op = "strict_iter"
    /\ Len(res.items) = 1
    /\ sled_len(tree) = 2


----------------------------------------------------------------------------
(* Properties of the calls whose arguments do not encode *)

\* an argument of the call recorded in r does not encode
EncodeFails(r) ==
    \/ r.op \in {"get", "remove", "contains_key"} /\ ~TryEncode(r.key).ok
    \/ r.op = "insert" /\ (~TryEncode(r.key).ok \/ ~TryEncode(r.value).ok)
    \/ r.op = "range" /\ (~BoundEncodes(r.start) \/ ~BoundEncodes(r.end))

\* C24: when a key, a value or a range bound does not encode, get, insert,
\* remove, contains_key and range return the encode error, have made no call
\* on the store and leave the tree as it was; insert does so also when only
\* the value fails, range also when only one of its bounds fails.
C24_EncodeErrorBeforeStore ==
    [][ "calls" \in DOMAIN res' /\ EncodeFails(res')
            => /\ res'.ret = Err("encode")
               /\ res'.calls = 0
               /\ tree' = tree ]_vars

\* reached: an insert of a value that does not encode under a key the tree
\* holds: the error, and the old value still there
C24_Witness ==
    /\ res.op = "insert" /\ "calls" \in DOMAIN res
    /\ res.key = T("u64", <<1>>) /\ res.value = NoLength
    /\ res.ret = Err("encode") /\ res.calls = 0
    /\ <<1>> \in DOMAIN tree /\ tree[<<1>>] = <<7>>

\* reached: a range whose start encodes and whose end does not, on a tree
\* with entries: the error and no items
C24_WitnessRange ==
    /\ res.op = "range" /\ "calls" \in DOMAIN res
    /\ res.start = Included(T("u64", <<1>>)) /\ res.end = Excluded(NoLength)
    /\ res.ret = Err("encode")
    /\ sled_len(tree) = 2


----------------------------------------------------------------------------
(* Properties of the writes that end in a decode error *)

\* C25: an insert, remove or pop_max that returns the decode error has made
\* its change all the same: after insert the key holds the new value's bytes
\* in place of the bytes that did not decode, after remove the key is gone,
\* after pop_max the largest entry is gone; the tree is never what it was.
C25_ErrAfterWrite ==
    [][ /\ res'.op = "insert" /\ res'.ret = Err("decode")
            => /\ Encode(res'.key) \in DOMAIN tree
               /\ ~Decode(res'.value.ty, tree[Encode(res'.key)]).ok
               /\ tree' = TreeWith(tree, Encode(res'.key), Encode(res'.value))
               /\ tree' # tree
        /\ res'.op = "remove" /\ res'.ret = Err("decode")
            => /\ Encode(res'.key) \in DOMAIN tree
               /\ tree' = TreeWithout(tree, Encode(res'.key))
               /\ tree' # tree
        /\ res'.op = "pop_max" /\ res'.ret = Err("decode")
            => /\ DOMAIN tree # {}
               /\ tree' = TreeWithout(tree, MaxKey(tree))
               /\ tree' # tree
      ]_vars

\* reached: an insert of the u64 7 over bytes that are no u64 returned the
\* decode error, and the key holds 7
C25_Witness ==
    /\ res.op = "insert"
    /\ res.ret = Err("decode")
    /\ res.value = T("u64", <<7>>)
    /\ tree[Encode(res.key)] = <<7>>

\* reached: a pop_max that returned the decode error and left the tree empty
C25_WitnessPopMax ==
    /\ res.op = "pop_max"
    /\ res.ret = Err("decode")
    /\ tree = EmptyTree

\* reached: a remove that returned the decode error and left the tree empty
C25_WitnessRemove ==
    /\ res.op = "remove"
    /\ res.ret = Err("decode")
    /\ tree = EmptyTree


----------------------------------------------------------------------------
(* Properties of the handles of one store *)

\* C26: whatever the order and interleaving of the opens, every handle
\* carries the mode whose tag is stored under the reserved key, and every
\* tree opened through a handle carries the mode of a handle, so that all
\* handles and trees of the store have one mode.
C26_HandlesAgree ==
    /\ handles # <<>> => IsConfigured(cfgval)
    /\ \A i \in 1..Len(handles) : handles[i].ser_mode = PersistedMode(cfgval)
    /\ \A j \in 1..Len(opened) :
          /\ \E i \in 1..Len(handles) : opened[j].ser_mode = handles[i].ser_mode
          /\ opened[j].ser_mode = PersistedMode(cfgval)

\* reached: two opens of a store with an unreadable marker ran interleaved,
\* the second finished on a read the first one's write had outdated, and a
\* tree was opened through a handle
C26_Witness ==
    /\ res.op = "open_tree"
    /\ Len(handles) = 2
    /\ seen[1] = Ok(Some(<<7>>)) /\ seen[2] = Ok(Some(<<7>>))
    /\ cfgval = Some(<<0>>)
    /\ Len(opened) = 1 /\ opened[1].ser_mode = "BINCODE"

====
